---- MODULE Spec2Model ----
(***************************************************************************)
(* A model of the rust-doca wrapper (crate `doca`): the DOCAMmap memory    *)
(* map, the DOCAContext execution context and the DOCAWorkQueue, together  *)
(* with the state of the native DOCA objects their FFI calls act on.       *)
(*                                                                         *)
(* Every public operation of the wrapper is one action.  An operation is   *)
(* a pure operator from the wrapper object, the native object and the      *)
(* native library's answers to the new wrapper object, the new native     *)
(* object, the value returned to the caller and the list of FFI calls the  *)
(* operation made, in order.  The variable `last` records the operation    *)
(* that ran last with its result and its FFI calls.                        *)
(*                                                                         *)
(* The native library is the environment.  It refuses what the wrapper's   *)
(* source documents as not permitted; everything else it may accept or     *)
(* refuse: the input `f` of an action is the first FFI call it refuses    *)
(* and the error code it answers with.                                     *)
(***************************************************************************)
EXTENDS Naturals, Sequences, FiniteSets

VARIABLES
    mmap,        \* the DOCAMmap wrapper object: st, ctx, ok
    doca_mmap,   \* the native doca_mmap behind DOCAMmap::inner
    context,     \* the DOCAContext wrapper objects
    doca_ctx,    \* the native doca_ctx of the engine (doca_dma_as_ctx)
    workq,       \* the DOCAWorkQueue wrapper objects
    doca_workq,  \* the native doca_workq objects
    last,        \* the last operation: op, arg, ret, calls
    held,        \* the Arc handles the caller holds: engine, devices, map
    doca_dev,    \* the native doca_dev of every device: open or closed
    doca_dma,    \* the native doca_dma of the engine: alive or destroyed
    refusable,   \* the operations whose FFI calls the library may refuse
    inv,         \* the BufferInventory wrapper object
    doca_buf_inventory, \* the native doca_buf_inventory
    buf,         \* the DOCARegisteredMemory and DOCABuffer wrapper objects
    doca_buf,    \* the native doca_buf objects
    job,         \* the DOCADMAJob object
    registry,    \* the enumerated devices, the DeviceList and Device objects
    config       \* the two files of save_config and load_config, and the
                 \* LoadedInfo that load_config returned last

mmapVars == <<mmap, doca_mmap>>
ctxVars == <<context, doca_ctx>>
workqVars == <<workq, doca_workq>>
devVars == <<doca_dev, doca_dma>>
invVars == <<inv, doca_buf_inventory>>
bufVars == <<buf, doca_buf>>

vars == <<mmap, doca_mmap, context, doca_ctx, workq, doca_workq, last,
          held, doca_dev, doca_dma, refusable,
          inv, doca_buf_inventory, buf, doca_buf, job, registry, config>>

----------------------------------------------------------------------------
(* Bounds of the model *)

\* add_device is not offered once the map records this many devices
MaxCtxLen == 3
\* populate is not offered once this many ranges are registered
MaxPopulate == 2
\* DOCAContext::new is given at most this many devices
MaxDevList == 2
\* DOCAWorkQueue::new is given a depth of at most this
MaxDepth == 2
\* the native library enumerates at most this many devices
MaxDevices == 2
\* the retrieve attempts of one poll_completion that are remembered
MaxSpins == 3

(* Program constants *)

\* const DOCA_MMAP_CHUNK_SIZE: u32 = 64
DOCA_MMAP_CHUNK_SIZE == 64
\* const DOCA_MAX_EXPORT_LENGTH: usize = 2048
DOCA_MAX_EXPORT_LENGTH == 2048

----------------------------------------------------------------------------
(* Values *)

\* the opened devices (Arc<DevContext>) the caller holds
Devs == {"dev0", "dev1"}

DOCA_SUCCESS == "DOCA_SUCCESS"
DOCA_ERROR_INVALID_VALUE == "DOCA_ERROR_INVALID_VALUE"
DOCA_ERROR_NOT_PERMITTED == "DOCA_ERROR_NOT_PERMITTED"
DOCA_ERROR_NO_MEMORY == "DOCA_ERROR_NO_MEMORY"
DOCA_ERROR_AGAIN == "DOCA_ERROR_AGAIN"
DOCA_ERROR_NOT_FOUND == "DOCA_ERROR_NOT_FOUND"
DOCA_ERROR_IO_FAILED == "DOCA_ERROR_IO_FAILED"
\* the error codes the native library answers with in the model
ErrCodes == {DOCA_ERROR_INVALID_VALUE, DOCA_ERROR_NOT_PERMITTED}

\* what an operation gives its caller: Ok(..), Err(code) or a panic
Ok == "Ok"
Panic == "Panic"
IsErr(ret) ==
    ret \in ErrCodes \cup {DOCA_ERROR_NO_MEMORY, DOCA_ERROR_AGAIN,
                          DOCA_ERROR_NOT_FOUND, DOCA_ERROR_IO_FAILED}

\* the answer of the native library to the i-th FFI call of an operation
Answer(i, f) == IF i = f[1] THEN f[2] ELSE DOCA_SUCCESS

\* the answers to an operation of n FFI calls: all accepted, or the i-th
\* refused with one of the error codes
NoFail == <<0, DOCA_SUCCESS>>
Fails(n) == {NoFail} \cup {<<i, e>> : i \in 1 .. n, e \in ErrCodes}

\* one FFI call: the function, its argument and the code it returned
Call(f, a, r) == [f |-> f, a |-> a, r |-> r]

\* the code a native function returns: its state must permit the call and
\* the library must accept it
Code(permitted, ans) ==
    IF permitted THEN ans
    ELSE IF ans = DOCA_SUCCESS THEN DOCA_ERROR_NOT_PERMITTED ELSE ans

----------------------------------------------------------------------------
(* The native doca_mmap *)

NoDocaMmap ==
    [alive |-> FALSE, started |-> FALSE, exported |-> FALSE,
     from_export |-> FALSE, max_chunks |-> 0, chunks |-> 0, devs |-> {}]

\* doca_mmap_dev_rm is not permitted for a map that is not started, or that
\* has been exported or created from export
DevChangePermitted(b) ==
    b.alive /\ b.started /\ ~b.exported /\ ~b.from_export

\* the specification of add_device: it fails if the map has already been
\* exported or is remote
DevAddPermitted(b) ==
    b.alive /\ b.started /\ ~b.exported /\ ~b.from_export

doca_mmap_dev_add(b, d, ans) ==
    LET r == Code(DevAddPermitted(b), ans)
    IN  [r |-> r,
         b |-> IF r = DOCA_SUCCESS THEN [b EXCEPT !.devs = @ \cup {d}] ELSE b]

doca_mmap_dev_rm(b, d, ans) ==
    LET r == Code(DevChangePermitted(b), ans)
    IN  [r |-> r,
         b |-> IF r = DOCA_SUCCESS THEN [b EXCEPT !.devs = @ \ {d}] ELSE b]

doca_mmap_export(b, d, ans) ==
    LET r == Code(b.alive /\ b.started /\ ~b.from_export, ans)
    IN  [r |-> r,
         b |-> IF r = DOCA_SUCCESS THEN [b EXCEPT !.exported = TRUE] ELSE b]

doca_mmap_populate(b, ans) ==
    LET r == Code(b.alive /\ b.started /\ b.chunks < b.max_chunks, ans)
    IN  [r |-> r,
         b |-> IF r = DOCA_SUCCESS THEN [b EXCEPT !.chunks = @ + 1] ELSE b]

doca_mmap_destroy(b) == [b EXCEPT !.alive = FALSE]

----------------------------------------------------------------------------
(* DOCAMmap *)

NoMmap == [st |-> "none", ctx |-> <<>>, ok |-> FALSE]

\* the result of an operation on the map
MmapResult(w, b, ret, calls) == [w |-> w, b |-> b, ret |-> ret, calls |-> calls]

\* the loop of Drop: doca_mmap_dev_rm for every recorded device, a panic at
\* the first one refused
RECURSIVE DropDevRm(_, _, _, _)
DropDevRm(b, ctx, i, f) ==
    IF i > Len(ctx) THEN [b |-> b, calls |-> <<>>, panic |-> FALSE]
    ELSE LET rm == doca_mmap_dev_rm(b, ctx[i], Answer(i, f))
             c  == Call("doca_mmap_dev_rm", ctx[i], rm.r)
         IN  IF rm.r # DOCA_SUCCESS
             THEN [b |-> rm.b, calls |-> <<c>>, panic |-> TRUE]
             ELSE LET rest == DropDevRm(rm.b, ctx, i + 1, f)
                  IN  [b |-> rest.b, calls |-> <<c>> \o rest.calls,
                       panic |-> rest.panic]

\* Drop as it would be without the loop: the native map is released with
\* its devices still registered
MmapDrop_NoDevRm(w, b, f) ==
    MmapResult([w EXCEPT !.st = "dropped", !.ctx = <<>>],
               doca_mmap_destroy(b), Ok,
               <<Call("doca_mmap_destroy", "-", DOCA_SUCCESS)>>)

\* the loop of Drop as it would be if the code returned by
\* doca_mmap_dev_rm were not looked at
RECURSIVE DropDevRm_Swallow(_, _, _, _)
DropDevRm_Swallow(b, ctx, i, f) ==
    IF i > Len(ctx) THEN [b |-> b, calls |-> <<>>, panic |-> FALSE]
    ELSE LET rm   == doca_mmap_dev_rm(b, ctx[i], Answer(i, f))
             c    == Call("doca_mmap_dev_rm", ctx[i], rm.r)
             rest == DropDevRm_Swallow(rm.b, ctx, i + 1, f)
         IN  [b |-> rest.b, calls |-> <<c>> \o rest.calls, panic |-> FALSE]

MmapDrop_Swallow(w, b, f) ==
    LET loop == IF w.ok THEN DropDevRm_Swallow(b, w.ctx, 1, f)
                ELSE [b |-> b, calls |-> <<>>, panic |-> FALSE]
    IN  MmapResult([w EXCEPT !.st = "dropped", !.ctx = <<>>],
                   doca_mmap_destroy(loop.b), Ok,
                   loop.calls \o <<Call("doca_mmap_destroy", "-", DOCA_SUCCESS)>>)

\* impl Drop for DOCAMmap
MmapDrop(w, b, f) ==
    LET loop == IF w.ok THEN DropDevRm(b, w.ctx, 1, f)
                ELSE [b |-> b, calls |-> <<>>, panic |-> FALSE]
    IN  IF loop.panic
        THEN MmapResult([w EXCEPT !.st = "panicked"], loop.b, Panic, loop.calls)
        ELSE MmapResult([w EXCEPT !.st = "dropped", !.ctx = <<>>],
                        doca_mmap_destroy(loop.b), Ok,
                        loop.calls \o <<Call("doca_mmap_destroy", "-", DOCA_SUCCESS)>>)

\* new as it would be if it started the map before setting the limit
MmapNew_StartFirst(f) ==
    LET created == [NoDocaMmap EXCEPT !.alive = TRUE]
        res     == [st |-> "live", ctx |-> <<>>, ok |-> TRUE]
        started == [created EXCEPT !.started = TRUE]
        limited == [started EXCEPT !.max_chunks = DOCA_MMAP_CHUNK_SIZE]
        c1 == Call("doca_mmap_create", "-", Answer(1, f))
        c2 == Call("doca_mmap_set_max_num_chunks", DOCA_MMAP_CHUNK_SIZE, Answer(2, f))
        c3 == Call("doca_mmap_start", "-", Answer(3, f))
    IN  IF c1.r # DOCA_SUCCESS THEN MmapResult(NoMmap, NoDocaMmap, c1.r, <<c1>>)
        ELSE IF c3.r # DOCA_SUCCESS
        THEN LET d == MmapDrop(res, created, NoFail)
             IN  MmapResult(d.w, d.b, c3.r, <<c1, c3>> \o d.calls)
        ELSE IF c2.r # DOCA_SUCCESS
        THEN LET d == MmapDrop(res, started, NoFail)
             IN  MmapResult(d.w, d.b, c2.r, <<c1, c3, c2>> \o d.calls)
        ELSE MmapResult(res, limited, Ok, <<c1, c3, c2>>)

\* DOCAMmap::new: create, set_max_chunks(64), start; `?` drops the map
MmapNew(f) ==
    LET created == [NoDocaMmap EXCEPT !.alive = TRUE]
        res     == [st |-> "live", ctx |-> <<>>, ok |-> TRUE]
        limited == [created EXCEPT !.max_chunks = DOCA_MMAP_CHUNK_SIZE]
        started == [limited EXCEPT !.started = TRUE]
        c1 == Call("doca_mmap_create", "-", Answer(1, f))
        c2 == Call("doca_mmap_set_max_num_chunks", DOCA_MMAP_CHUNK_SIZE, Answer(2, f))
        c3 == Call("doca_mmap_start", "-", Answer(3, f))
    IN  IF c1.r # DOCA_SUCCESS THEN MmapResult(NoMmap, NoDocaMmap, c1.r, <<c1>>)
        ELSE IF c2.r # DOCA_SUCCESS
        THEN LET d == MmapDrop(res, created, NoFail)
             IN  MmapResult(d.w, d.b, c2.r, <<c1, c2>> \o d.calls)
        ELSE IF c3.r # DOCA_SUCCESS
        THEN LET d == MmapDrop(res, limited, NoFail)
             IN  MmapResult(d.w, d.b, c3.r, <<c1, c2, c3>> \o d.calls)
        ELSE MmapResult(res, started, Ok, <<c1, c2, c3>>)

\* DOCAMmap::new_from_export
MmapNewFromExport(dev, f) ==
    LET c1 == Call("doca_mmap_create_from_export", dev, Answer(1, f))
    IN  IF c1.r # DOCA_SUCCESS THEN MmapResult(NoMmap, NoDocaMmap, c1.r, <<c1>>)
        ELSE MmapResult([st |-> "live", ctx |-> <<dev>>, ok |-> FALSE],
                        [NoDocaMmap EXCEPT !.alive = TRUE, !.started = TRUE,
                                           !.from_export = TRUE, !.devs = {dev}],
                        Ok, <<c1>>)

\* export as it would be if it forbade the removal of devices before it
\* looked at the code returned by doca_mmap_export
MmapExport_FlagFirst(w, b, dev_index, f) ==
    IF dev_index >= Len(w.ctx)
    THEN MmapResult(w, b, DOCA_ERROR_INVALID_VALUE, <<>>)
    ELSE LET dev == w.ctx[dev_index + 1]
             ex  == doca_mmap_export(b, dev, Answer(1, f))
             c1  == Call("doca_mmap_export", dev, ex.r)
         IN  MmapResult([w EXCEPT !.ok = FALSE], ex.b,
                        IF ex.r # DOCA_SUCCESS THEN ex.r ELSE Ok, <<c1>>)

\* export as it would be without `self.ok = false`
MmapExport_KeepOk(w, b, dev_index, f) ==
    IF dev_index >= Len(w.ctx)
    THEN MmapResult(w, b, DOCA_ERROR_INVALID_VALUE, <<>>)
    ELSE LET dev == w.ctx[dev_index + 1]
             ex  == doca_mmap_export(b, dev, Answer(1, f))
             c1  == Call("doca_mmap_export", dev, ex.r)
         IN  MmapResult(w, ex.b, IF ex.r # DOCA_SUCCESS THEN ex.r ELSE Ok, <<c1>>)

\* DOCAMmap::export; dev_index counts from 0
MmapExport(w, b, dev_index, f) ==
    IF dev_index >= Len(w.ctx)
    THEN MmapResult(w, b, DOCA_ERROR_INVALID_VALUE, <<>>)
    ELSE LET dev == w.ctx[dev_index + 1]
             ex  == doca_mmap_export(b, dev, Answer(1, f))
             c1  == Call("doca_mmap_export", dev, ex.r)
         IN  IF ex.r # DOCA_SUCCESS THEN MmapResult(w, ex.b, ex.r, <<c1>>)
             ELSE MmapResult([w EXCEPT !.ok = FALSE], ex.b, Ok, <<c1>>)

\* add_device as it would be if the device were recorded before the code
\* returned by doca_mmap_dev_add is looked at
MmapAddDevice_PushFirst(w, b, dev, f) ==
    LET add == doca_mmap_dev_add(b, dev, Answer(1, f))
        c1  == Call("doca_mmap_dev_add", dev, add.r)
    IN  MmapResult([w EXCEPT !.ctx = Append(@, dev)], add.b,
                   IF add.r # DOCA_SUCCESS THEN add.r ELSE Ok, <<c1>>)

\* DOCAMmap::add_device
MmapAddDevice(w, b, dev, f) ==
    LET add == doca_mmap_dev_add(b, dev, Answer(1, f))
        c1  == Call("doca_mmap_dev_add", dev, add.r)
    IN  IF add.r # DOCA_SUCCESS THEN MmapResult(w, add.b, add.r, <<c1>>)
        ELSE MmapResult([w EXCEPT !.ctx = Append(@, dev)], add.b, Ok, <<c1>>)

\* the index add_device returns: self.ctx.len() - 1 after the push
AddDeviceIndex(w) == Len(w.ctx) - 1

\* rm_device as it would be if the deregistered device were also taken out
\* of self.ctx, which moves every later device one index down
MmapRmDevice_Remove(w, b, dev_idx, f) ==
    IF dev_idx >= Len(w.ctx) THEN MmapResult(w, b, Panic, <<>>)
    ELSE LET dev == w.ctx[dev_idx + 1]
             rm  == doca_mmap_dev_rm(b, dev, Answer(1, f))
             c1  == Call("doca_mmap_dev_rm", dev, rm.r)
         IN  IF rm.r # DOCA_SUCCESS THEN MmapResult(w, rm.b, rm.r, <<c1>>)
             ELSE MmapResult([w EXCEPT !.ctx = SubSeq(@, 1, dev_idx) \o
                                               SubSeq(@, dev_idx + 2, Len(@))],
                             rm.b, Ok, <<c1>>)

\* DOCAMmap::rm_device; self.ctx[_dev_idx] panics on an index out of bounds
MmapRmDevice(w, b, dev_idx, f) ==
    IF dev_idx >= Len(w.ctx) THEN MmapResult(w, b, Panic, <<>>)
    ELSE LET dev == w.ctx[dev_idx + 1]
             rm  == doca_mmap_dev_rm(b, dev, Answer(1, f))
             c1  == Call("doca_mmap_dev_rm", dev, rm.r)
         IN  MmapResult(w, rm.b, IF rm.r # DOCA_SUCCESS THEN rm.r ELSE Ok, <<c1>>)

\* DOCAMmap::populate
MmapPopulate(w, b, f) ==
    LET p  == doca_mmap_populate(b, Answer(1, f))
        c1 == Call("doca_mmap_populate", "-", p.r)
    IN  MmapResult(w, p.b, IF p.r # DOCA_SUCCESS THEN p.r ELSE Ok, <<c1>>)

----------------------------------------------------------------------------
(* The native doca_ctx of the engine and the native doca_workq objects *)

CtxIds == {"ctx0", "ctx1"}
WqIds == {"wq0", "wq1"}

NoDocaCtx == [started |-> FALSE, devs |-> {}, workqs |-> {}]
NoDocaWorkq == [alive |-> FALSE, depth |-> 0, jobs |-> 0]

\* doca_ctx_start "finalizes all configurations" and doca_ctx_stop "stops
\* the context allowing reconfiguration": devices change only when stopped
doca_ctx_dev_add(b, d, ans) ==
    LET r == Code(~b.started, ans)
    IN  [r |-> r,
         b |-> IF r = DOCA_SUCCESS THEN [b EXCEPT !.devs = @ \cup {d}] ELSE b]

doca_ctx_dev_rm(b, d, ans) ==
    LET r == Code(~b.started, ans)
    IN  [r |-> r,
         b |-> IF r = DOCA_SUCCESS THEN [b EXCEPT !.devs = @ \ {d}] ELSE b]

doca_ctx_start(b, ans) ==
    [r |-> ans,
     b |-> IF ans = DOCA_SUCCESS THEN [b EXCEPT !.started = TRUE] ELSE b]

doca_ctx_stop(b, ans) ==
    [r |-> ans,
     b |-> IF ans = DOCA_SUCCESS THEN [b EXCEPT !.started = FALSE] ELSE b]

doca_ctx_workq_add(b, q, ans) ==
    [r |-> ans,
     b |-> IF ans = DOCA_SUCCESS THEN [b EXCEPT !.workqs = @ \cup {q}] ELSE b]

doca_ctx_workq_rm(b, q, ans) ==
    [r |-> ans,
     b |-> IF ans = DOCA_SUCCESS THEN [b EXCEPT !.workqs = @ \ {q}] ELSE b]

----------------------------------------------------------------------------
(* DOCAContext *)

\* handle: the caller still holds the Arc that DOCAContext::new returned
NoContext == [st |-> "none", added_devs |-> <<>>, handle |-> FALSE]

CtxResult(w, b, ret, calls) == [w |-> w, b |-> b, ret |-> ret, calls |-> calls]

\* the loop of Drop: doca_ctx_dev_rm for every device of added_devs, a
\* panic at the first one refused; the removals are FFI calls 2, 3, ...
RECURSIVE CtxDropDevRm(_, _, _, _)
CtxDropDevRm(b, added_devs, i, f) ==
    IF i > Len(added_devs) THEN [b |-> b, calls |-> <<>>, panic |-> FALSE]
    ELSE LET rm == doca_ctx_dev_rm(b, added_devs[i], Answer(i + 1, f))
             c  == Call("doca_ctx_dev_rm", added_devs[i], rm.r)
         IN  IF rm.r # DOCA_SUCCESS
             THEN [b |-> rm.b, calls |-> <<c>>, panic |-> TRUE]
             ELSE LET rest == CtxDropDevRm(rm.b, added_devs, i + 1, f)
                  IN  [b |-> rest.b, calls |-> <<c>> \o rest.calls,
                       panic |-> rest.panic]

\* impl Drop for DOCAContext: stop, then remove every device of added_devs
ContextDrop(w, b, f) ==
    LET stop == doca_ctx_stop(b, Answer(1, f))
        c1   == Call("doca_ctx_stop", "-", stop.r)
        loop == CtxDropDevRm(stop.b, w.added_devs, 1, f)
    IN  IF stop.r # DOCA_SUCCESS
        THEN CtxResult([w EXCEPT !.st = "panicked"], stop.b, Panic, <<c1>>)
        ELSE IF loop.panic
        THEN CtxResult([w EXCEPT !.st = "panicked"], loop.b, Panic,
                       <<c1>> \o loop.calls)
        ELSE CtxResult([w EXCEPT !.st = "dropped"], loop.b, Ok,
                       <<c1>> \o loop.calls)

\* the loop of new: add_device for every device given, `?` at the first
\* one refused
RECURSIVE CtxAddDevices(_, _, _, _)
CtxAddDevices(b, devs, i, f) ==
    IF i > Len(devs) THEN [b |-> b, calls |-> <<>>, r |-> DOCA_SUCCESS]
    ELSE LET add == doca_ctx_dev_add(b, devs[i], Answer(i, f))
             c   == Call("doca_ctx_dev_add", devs[i], add.r)
         IN  IF add.r # DOCA_SUCCESS
             THEN [b |-> add.b, calls |-> <<c>>, r |-> add.r]
             ELSE LET rest == CtxAddDevices(add.b, devs, i + 1, f)
                  IN  [b |-> rest.b, calls |-> <<c>> \o rest.calls, r |-> rest.r]

\* what `?` gives the caller when it drops the context under construction
ErrOrPanic(d, r) == IF d.ret = Panic THEN Panic ELSE r

\* new as it would be if it started the context before adding the devices
ContextNew_StartFirst(b, devs, f, df) ==
    IF devs = <<>> THEN CtxResult(NoContext, b, Panic, <<>>)
    ELSE
    LET c0    == Call("doca_dma_as_ctx", "-", DOCA_SUCCESS)
        start == doca_ctx_start(b, Answer(Len(devs) + 1, f))
        c2    == Call("doca_ctx_start", "-", start.r)
        adds  == CtxAddDevices(start.b, devs, 1, f)
        full  == [st |-> "live", added_devs |-> devs, handle |-> TRUE]
    IN  IF start.r # DOCA_SUCCESS \/ adds.r # DOCA_SUCCESS
        THEN CtxResult(NoContext, adds.b,
                       IF start.r # DOCA_SUCCESS THEN start.r ELSE adds.r,
                       <<c0, c2>> \o adds.calls)
        ELSE CtxResult(full, adds.b, Ok, <<c0, c2>> \o adds.calls)

\* DOCAContext::new; f is the library's answers to the calls of new (the
\* adds, then start), df those to the calls of the Drop that `?` runs on
\* the context under construction
ContextNew(b, devs, f, df) ==
    IF devs = <<>> THEN CtxResult(NoContext, b, Panic, <<>>)
    ELSE
    LET c0    == Call("doca_dma_as_ctx", "-", DOCA_SUCCESS)
        res   == [st |-> "live", added_devs |-> <<>>, handle |-> TRUE]
        adds  == CtxAddDevices(b, devs, 1, f)
        full  == [res EXCEPT !.added_devs = devs]
        start == doca_ctx_start(adds.b, Answer(Len(devs) + 1, f))
        c2    == Call("doca_ctx_start", "-", start.r)
    IN  IF adds.r # DOCA_SUCCESS
        THEN LET d == ContextDrop(res, adds.b, df)
             IN  CtxResult(NoContext, d.b, ErrOrPanic(d, adds.r),
                           <<c0>> \o adds.calls \o d.calls)
        ELSE IF start.r # DOCA_SUCCESS
        THEN LET d == ContextDrop(full, start.b, df)
             IN  CtxResult(NoContext, d.b, ErrOrPanic(d, start.r),
                           <<c0>> \o adds.calls \o <<c2>> \o d.calls)
        ELSE CtxResult(full, start.b, Ok, <<c0>> \o adds.calls \o <<c2>>)

----------------------------------------------------------------------------
(* DOCAWorkQueue *)

NoWorkq == [st |-> "none", depth |-> 0, ctx |-> "-"]

\* bq: the native doca_workq, bc: the native doca_ctx
WqResult(w, bq, bc, ret, calls) ==
    [w |-> w, bq |-> bq, bc |-> bc, ret |-> ret, calls |-> calls]

\* Drop as it would be without the assert_eq!: the native queue is
\* destroyed whatever doca_ctx_workq_rm returned
WorkqDrop_NoAssert(q, w, bq, bc, f) ==
    LET rm == doca_ctx_workq_rm(bc, q, Answer(1, f))
        c1 == Call("doca_ctx_workq_rm", q, rm.r)
        c2 == Call("doca_workq_destroy", q, DOCA_SUCCESS)
    IN  WqResult([w EXCEPT !.st = "dropped"], [bq EXCEPT !.alive = FALSE],
                 rm.b, Ok, <<c1, c2>>)

\* impl Drop for DOCAWorkQueue: doca_ctx_workq_rm, assert_eq!, destroy
WorkqDrop(q, w, bq, bc, f) ==
    LET rm == doca_ctx_workq_rm(bc, q, Answer(1, f))
        c1 == Call("doca_ctx_workq_rm", q, rm.r)
        c2 == Call("doca_workq_destroy", q, DOCA_SUCCESS)
    IN  IF rm.r # DOCA_SUCCESS
        THEN WqResult([w EXCEPT !.st = "panicked"], bq, rm.b, Panic, <<c1>>)
        ELSE WqResult([w EXCEPT !.st = "dropped"], [bq EXCEPT !.alive = FALSE],
                      rm.b, Ok, <<c1, c2>>)

\* new as it would be if the native queue were created one job shorter
\* than the depth the wrapper records
WorkqNew_ShortDepth(q, c, depth, bc, f, df) ==
    LET c1  == Call("doca_workq_create", depth - 1, Answer(1, f))
        bq  == [alive |-> TRUE, depth |-> depth - 1, jobs |-> 0]
        res == [st |-> "live", depth |-> depth, ctx |-> c]
        add == doca_ctx_workq_add(bc, q, Answer(2, f))
        c2  == Call("doca_ctx_workq_add", q, add.r)
    IN  IF c1.r # DOCA_SUCCESS
        THEN WqResult(NoWorkq, NoDocaWorkq, bc, c1.r, <<c1>>)
        ELSE IF add.r # DOCA_SUCCESS
        THEN LET d == WorkqDrop(q, res, bq, add.b, df)
             IN  WqResult(NoWorkq, d.bq, d.bc, ErrOrPanic(d, add.r),
                          <<c1, c2>> \o d.calls)
        ELSE WqResult(res, bq, add.b, Ok, <<c1, c2>>)

\* DOCAWorkQueue::new: doca_workq_create, then doca_ctx_workq_add; a
\* refused add returns Err, which drops the queue under construction
WorkqNew(q, c, depth, bc, f, df) ==
    LET c1  == Call("doca_workq_create", depth, Answer(1, f))
        bq  == [alive |-> TRUE, depth |-> depth, jobs |-> 0]
        res == [st |-> "live", depth |-> depth, ctx |-> c]
        add == doca_ctx_workq_add(bc, q, Answer(2, f))
        c2  == Call("doca_ctx_workq_add", q, add.r)
    IN  IF c1.r # DOCA_SUCCESS
        THEN WqResult(NoWorkq, NoDocaWorkq, bc, c1.r, <<c1>>)
        ELSE IF add.r # DOCA_SUCCESS
        THEN LET d == WorkqDrop(q, res, bq, add.b, df)
             IN  WqResult(NoWorkq, d.bq, d.bc, ErrOrPanic(d, add.r),
                          <<c1, c2>> \o d.calls)
        ELSE WqResult(res, bq, add.b, Ok, <<c1, c2>>)

\* the specification of the depth: the queue takes a job while fewer than
\* depth jobs are outstanding
SubmitPermitted(bq) == bq.alive /\ bq.jobs < bq.depth

\* doca_workq_submit: a full queue answers DOCA_ERROR_NO_MEMORY
doca_workq_submit(bq, ans) ==
    LET r == IF SubmitPermitted(bq) THEN ans
             ELSE IF ans = DOCA_SUCCESS THEN DOCA_ERROR_NO_MEMORY ELSE ans
    IN  [r |-> r, bq |-> IF r = DOCA_SUCCESS THEN [bq EXCEPT !.jobs = @ + 1] ELSE bq]

\* doca_workq_progress_retrieve: DOCA_ERROR_AGAIN while no job has completed,
\* which is always so when none is outstanding
doca_workq_progress_retrieve(bq, ans) ==
    LET r == IF ans = DOCA_SUCCESS /\ bq.jobs = 0 THEN DOCA_ERROR_AGAIN ELSE ans
    IN  [r |-> r, bq |-> IF r = DOCA_SUCCESS THEN [bq EXCEPT !.jobs = @ - 1] ELSE bq]

\* DOCAWorkQueue::submit
WorkqSubmit(q, bq, ans) ==
    LET sub == doca_workq_submit(bq, ans)
        c1  == Call("doca_workq_submit", q, sub.r)
    IN  [bq |-> sub.bq, ret |-> IF sub.r # DOCA_SUCCESS THEN sub.r ELSE Ok,
         calls |-> <<c1>>]

\* poll_completion as it would be if it retrieved once more after the
\* library answered DOCA_ERROR_AGAIN
WorkqPollCompletion_Retry(q, bq, ans) ==
    LET got == doca_workq_progress_retrieve(bq, ans)
        c1  == Call("doca_workq_progress_retrieve", q, got.r)
        nxt == doca_workq_progress_retrieve(got.bq, DOCA_SUCCESS)
        c2  == Call("doca_workq_progress_retrieve", q, nxt.r)
    IN  IF got.r = DOCA_ERROR_AGAIN
        THEN [bq |-> nxt.bq, ret |-> IF nxt.r # DOCA_SUCCESS THEN nxt.r ELSE Ok,
              calls |-> <<c1, c2>>]
        ELSE [bq |-> got.bq, ret |-> IF got.r # DOCA_SUCCESS THEN got.r ELSE Ok,
              calls |-> <<c1>>]

\* DOCAWorkQueue::poll_completion: one doca_workq_progress_retrieve
WorkqPollCompletion(q, bq, ans) ==
    LET got == doca_workq_progress_retrieve(bq, ans)
        c1  == Call("doca_workq_progress_retrieve", q, got.r)
    IN  [bq |-> got.bq, ret |-> IF got.r # DOCA_SUCCESS THEN got.r ELSE Ok,
         calls |-> <<c1>>]

\* depth as it would be if it gave the room left in the native queue
WorkqDepth_Room(w, bq) == bq.depth - bq.jobs

\* DOCAWorkQueue::depth: the field depth of the wrapper; bq is the native
\* queue behind self.inner, which depth does not read
WorkqDepth(w, bq) == w.depth

----------------------------------------------------------------------------
(* WorkQueue of context.rs: a queue that belongs to no context *)

\* poll_completion has not returned: it is inside its loop
Pending == "Pending"

\* the retrieve attempts of one call that are remembered: the last MaxSpins
Remember(calls) ==
    IF Len(calls) <= MaxSpins THEN calls
    ELSE SubSeq(calls, Len(calls) - MaxSpins + 1, Len(calls))

\* WorkQueue::new: doca_workq_create
WorkQueueNew(depth, ans) ==
    LET c1 == Call("doca_workq_create", depth, ans)
    IN  IF ans # DOCA_SUCCESS
        THEN [w |-> NoWorkq, bq |-> NoDocaWorkq, ret |-> ans, calls |-> <<c1>>]
        ELSE [w |-> [st |-> "live", depth |-> depth, ctx |-> "-"],
              bq |-> [alive |-> TRUE, depth |-> depth, jobs |-> 0],
              ret |-> Ok, calls |-> <<c1>>]

\* impl Drop for WorkQueue: doca_workq_destroy, its code ignored
WorkQueueDrop(q, w, bq) ==
    [w |-> [w EXCEPT !.st = "dropped"], bq |-> [bq EXCEPT !.alive = FALSE],
     ret |-> Ok, calls |-> <<Call("doca_workq_destroy", q, DOCA_SUCCESS)>>]

\* one attempt of poll_completion as it would be without the loop: the
\* code of the attempt is returned whatever it is
WorkQueueRetrieve_NoLoop(q, bq, ans, calls) ==
    LET got == doca_workq_progress_retrieve(bq, ans)
        c1  == Call("doca_workq_progress_retrieve", q, got.r)
    IN  [bq |-> got.bq, ret |-> got.r, calls |-> Remember(calls \o <<c1>>)]

\* one attempt of WorkQueue::poll_completion, the first one or one of the
\* loop: doca_workq_progress_retrieve; the call goes on while the code is
\* DOCA_ERROR_AGAIN and returns any other code.  calls: the attempts the
\* call has made before
WorkQueueRetrieve(q, bq, ans, calls) ==
    LET got == doca_workq_progress_retrieve(bq, ans)
        c1  == Call("doca_workq_progress_retrieve", q, got.r)
    IN  [bq |-> got.bq,
         ret |-> IF got.r = DOCA_ERROR_AGAIN THEN Pending ELSE got.r,
         calls |-> Remember(calls \o <<c1>>)]

----------------------------------------------------------------------------
(* Shared ownership: the engine and the devices *)

Range(seq) == {seq[i] : i \in 1 .. Len(seq)}

\* impl Drop for DMAEngine: doca_dma_destroy, a panic when it is refused
doca_dma_destroy(alive, ans) ==
    [r |-> ans, alive |-> IF ans = DOCA_SUCCESS THEN FALSE ELSE alive]

\* the devices held as they would be if the map recorded its devices
\* without holding an Arc of them
DevsHeld_MapBorrows(h, ctxs, mm) ==
    (h \cap Devs)
    \cup UNION {Range(ctxs[c].added_devs) : c \in {x \in CtxIds : ctxs[x].st = "live"}}

\* the devices somebody holds an Arc<DevContext> of: the caller (h), the
\* field added_devs of a context, the field ctx of the map
DevsHeld(h, ctxs, mm) ==
    (h \cap Devs)
    \cup UNION {Range(ctxs[c].added_devs) : c \in {x \in CtxIds : ctxs[x].st = "live"}}
    \cup (IF mm.st = "live" THEN Range(mm.ctx) ELSE {})

\* a Vec<Arc<DevContext>> is dropped: impl Drop for DevContext closes, in
\* order, every open device that nobody holds any more
RECURSIVE CloseDevs(_, _, _)
CloseDevs(open, devs, stillHeld) ==
    IF devs = <<>> THEN [open |-> open, calls |-> <<>>]
    ELSE LET d      == Head(devs)
             closes == open[d] /\ d \notin stillHeld
             rest   == CloseDevs(IF closes THEN [open EXCEPT ![d] = FALSE] ELSE open,
                                 Tail(devs), stillHeld)
         IN  [open |-> rest.open,
              calls |-> (IF closes THEN <<Call("doca_dev_close", d, DOCA_SUCCESS)>>
                         ELSE <<>>) \o rest.calls]

\* the fields of a context whose Drop::drop left d: engine, whose Drop is
\* doca_dma_destroy with a panic when it is refused, and then added_devs
ArcContextFields(c, d, ctxs, dma, open, h, mm, ea) ==
    LET ctxs1 == [ctxs EXCEPT ![c] = [d.w EXCEPT !.handle = FALSE]]
        engineLast == /\ dma
                      /\ "engine" \notin h
                      /\ \A x \in CtxIds : ctxs1[x].st # "live"
        eng   == doca_dma_destroy(dma, ea)
        ce    == Call("doca_dma_destroy", "-", eng.r)
        cl    == CloseDevs(open, ctxs[c].added_devs, DevsHeld(h, ctxs1, mm))
    IN  IF d.ret = Panic
        THEN [context |-> ctxs1, doca_ctx |-> d.b, doca_dma |-> dma,
              doca_dev |-> open, ret |-> Panic, calls |-> d.calls]
        ELSE IF engineLast /\ eng.r # DOCA_SUCCESS
        THEN [context |-> ctxs1, doca_ctx |-> d.b, doca_dma |-> eng.alive,
              doca_dev |-> open, ret |-> Panic, calls |-> d.calls \o <<ce>>]
        ELSE [context |-> ctxs1, doca_ctx |-> d.b,
              doca_dma |-> IF engineLast THEN eng.alive ELSE dma,
              doca_dev |-> cl.open, ret |-> Ok,
              calls |-> d.calls \o (IF engineLast THEN <<ce>> ELSE <<>>) \o cl.calls]

ArcContextFieldsFirst(c, d, ctxs, dma, open, h, mm) ==
    LET ctxs1 == [ctxs EXCEPT ![c] = [d.w EXCEPT !.handle = FALSE]]
        cl    == CloseDevs(open, ctxs[c].added_devs, DevsHeld(h, ctxs1, mm))
    IN  [context |-> ctxs1, doca_ctx |-> d.b, doca_dma |-> dma,
         doca_dev |-> cl.open, ret |-> d.ret, calls |-> cl.calls \o d.calls]

\* the same with the fields dropped before Drop::drop has run: the devices
\* are closed while they are still added to the context
DropArcContext_FieldsFirst(c, ctxs, bc, dma, open, h, mm, f, ea) ==
    ArcContextFieldsFirst(c, ContextDrop(ctxs[c], bc, f), ctxs, dma, open, h, mm)

\* the last Arc<DOCAContext> of context c is dropped: Drop::drop, then its
\* fields in the order of their declaration, engine and then added_devs.
\* ea is the library's answer to doca_dma_destroy.
DropArcContext(c, ctxs, bc, dma, open, h, mm, f, ea) ==
    ArcContextFields(c, ContextDrop(ctxs[c], bc, f), ctxs, dma, open, h, mm, ea)

\* the map is dropped: Drop::drop, whose self.ctx.clear() drops the Arcs of
\* the recorded devices before doca_mmap_destroy is called
MmapClose(d, w, open, h, ctxs) ==
    LET cl == CloseDevs(open, w.ctx, DevsHeld(h, ctxs, d.w))
        n  == Len(d.calls)
    IN  IF d.ret = Panic
        THEN [w |-> d.w, b |-> d.b, doca_dev |-> open, ret |-> Panic,
              calls |-> d.calls]
        ELSE [w |-> d.w, b |-> d.b, doca_dev |-> cl.open, ret |-> Ok,
              calls |-> SubSeq(d.calls, 1, n - 1) \o cl.calls
                        \o SubSeq(d.calls, n, n)]

MmapDropAndClose(w, b, open, h, ctxs, f) ==
    MmapClose(MmapDrop(w, b, f), w, open, h, ctxs)

----------------------------------------------------------------------------
(* Buffers: the inventory, registered memory, buffers and the DMA job *)

BufIds == {"b0", "b1", "b2"}

\* a pointer is PtrBits wide
PtrBits == 3
\* the longest memory region a caller registers
MaxPayload == 2

\* the values of a usize, and of an address
USize == 0 .. (2 ^ PtrBits - 1)

\* struct RawPointer: the address of a region and its length
NoPointer == [inner |-> 0, payload |-> 0]

\* the regions a caller can own: not at address 0, and inside the address
\* space
Pointers ==
    {p \in [inner : USize \ {0}, payload : 0 .. MaxPayload] :
        p.inner + p.payload <= 2 ^ PtrBits - 1}

NoInv == [st |-> "none"]
NoDocaBufInventory == [alive |-> FALSE, started |-> FALSE]
NoBuf == [st |-> "none", head |-> NoPointer]
NoDocaBuf == [alive |-> FALSE, head |-> 0, size |-> 0, data |-> 0, len |-> 0]
NoJob == [st |-> "none", ctx |-> "-", src |-> "-", dst |-> "-"]

\* doca_buf_inventory_buf_by_args: a native buffer whose head is the region
\* and whose data starts at the head with length 0
doca_buf_inventory_buf_by_args(head, size, data, len, ans) ==
    [r |-> ans,
     b |-> IF ans = DOCA_SUCCESS
           THEN [alive |-> TRUE, head |-> head, size |-> size,
                 data |-> data, len |-> len]
           ELSE NoDocaBuf]

doca_buf_refcount_rm(b, ans) ==
    [r |-> ans, b |-> IF ans = DOCA_SUCCESS THEN [b EXCEPT !.alive = FALSE] ELSE b]

\* the specification of the active range: it must lie within the head range
SetDataPermitted(b, data, len) ==
    b.alive /\ b.head <= data /\ data + len <= b.head + b.size

doca_buf_set_data(b, data, len, ans) ==
    LET r == IF SetDataPermitted(b, data, len) THEN ans
             ELSE IF ans = DOCA_SUCCESS THEN DOCA_ERROR_INVALID_VALUE ELSE ans
    IN  [r |-> r,
         b |-> IF r = DOCA_SUCCESS THEN [b EXCEPT !.data = data, !.len = len] ELSE b]

doca_buf_get_data(b, ans) == [r |-> ans, data |-> b.data]

\* the objects an operation on buffers or on a job can reach through the
\* Arcs they hold
World ==
    [mmap |-> mmap, doca_mmap |-> doca_mmap, context |-> context,
     doca_ctx |-> doca_ctx, workq |-> workq, doca_dev |-> doca_dev,
     doca_dma |-> doca_dma, held |-> held, inv |-> inv,
     doca_buf_inventory |-> doca_buf_inventory, buf |-> buf,
     doca_buf |-> doca_buf, job |-> job]

\* what an operation leaves: the objects, the value returned, the FFI calls
Done(s, ret, calls) == [s |-> s, ret |-> ret, calls |-> calls]

\* the same with a DOCABuffer that records no Arc of its map
MmapHolders_NoArc(s) == {b \in BufIds : s.buf[b].st = "registered"}

\* the holders of an Arc<DOCAMmap> besides the caller: DOCARegisteredMemory
\* and DOCABuffer
MmapHolders(s) == {b \in BufIds : s.buf[b].st \in {"registered", "live"}}

\* the same with a DOCABuffer that records no Arc of its inventory
InvHolders_NoArc(s) == {}

\* the holders of an Arc<BufferInventory> besides the caller: DOCABuffer
InvHolders(s) == {b \in BufIds : s.buf[b].st = "live"}

\* the same with a DOCAWorkQueue that records no Arc of its context
CtxHolders_NoQueueArc(s, c) ==
    IF s.job.st = "live" /\ s.job.ctx = c THEN {"job"} ELSE {}

\* the holders of an Arc<DOCAContext> besides the caller: DOCAWorkQueue and
\* DOCADMAJob
CtxHolders(s, c) ==
    {q \in WqIds : s.workq[q].st = "live" /\ s.workq[q].ctx = c}
    \cup (IF s.job.st = "live" /\ s.job.ctx = c THEN {"job"} ELSE {})

\* the buffers a live job owns
InJob(j) == IF j.st = "live" THEN {j.src, j.dst} ELSE {}

\* r and then n: the objects and the value of n, the FFI calls of both
Join(r, n) == Done(n.s, n.ret, r.calls \o n.calls)

\* the objects after impl Drop for DOCAMmap left d
MmapReleased(s, d) ==
    Done([s EXCEPT !.mmap = d.w, !.doca_mmap = d.b, !.doca_dev = d.doca_dev],
         d.ret, d.calls)

\* an Arc<DOCAMmap> is dropped: impl Drop for DOCAMmap runs when it was the
\* last one
ReleaseMmap(s, f) ==
    IF "mmap" \in s.held \/ MmapHolders(s) # {} \/ s.mmap.st # "live"
    THEN Done(s, Ok, <<>>)
    ELSE MmapReleased(s, MmapDropAndClose(s.mmap, s.doca_mmap, s.doca_dev,
                                          s.held, s.context, f))

\* impl Drop for BufferInventory: doca_buf_inventory_destroy, whose code is
\* not looked at
InvDrop(b) ==
    [w |-> [st |-> "dropped"], b |-> [b EXCEPT !.alive = FALSE],
     calls |-> <<Call("doca_buf_inventory_destroy", "-", DOCA_SUCCESS)>>]

\* an Arc<BufferInventory> is dropped
ReleaseInv(s) ==
    IF "inv" \in s.held \/ InvHolders(s) # {} \/ s.inv.st # "live"
    THEN Done(s, Ok, <<>>)
    ELSE LET d == InvDrop(s.doca_buf_inventory)
         IN  Done([s EXCEPT !.inv = d.w, !.doca_buf_inventory = d.b], Ok, d.calls)

\* the objects after the drop of the last Arc<DOCAContext> left d
ContextReleased(s, d) ==
    Done([s EXCEPT !.context = d.context, !.doca_ctx = d.doca_ctx,
                   !.doca_dma = d.doca_dma, !.doca_dev = d.doca_dev],
         d.ret, d.calls)

\* an Arc<DOCAContext> is dropped
ReleaseContext(s, c, f, ea) ==
    IF s.context[c].handle \/ CtxHolders(s, c) # {} \/ s.context[c].st # "live"
    THEN Done(s, Ok, <<>>)
    ELSE ContextReleased(s, DropArcContext(c, s.context, s.doca_ctx, s.doca_dma,
                                           s.doca_dev, s.held, s.mmap, f, ea))

\* BufferInventory::new: create, then start; `?` drops the inventory
InvNew(f) ==
    LET c1 == Call("doca_buf_inventory_create", "-", Answer(1, f))
        c2 == Call("doca_buf_inventory_start", "-", Answer(2, f))
        created == [alive |-> TRUE, started |-> FALSE]
    IN  IF c1.r # DOCA_SUCCESS
        THEN [w |-> NoInv, b |-> NoDocaBufInventory, ret |-> c1.r, calls |-> <<c1>>]
        ELSE IF c2.r # DOCA_SUCCESS
        THEN LET d == InvDrop(created)
             IN  [w |-> NoInv, b |-> d.b, ret |-> c2.r,
                  calls |-> <<c1, c2>> \o d.calls]
        ELSE [w |-> [st |-> "live"], b |-> [created EXCEPT !.started = TRUE],
              ret |-> Ok, calls |-> <<c1, c2>>]

\* DOCARegisteredMemory::new: clones the Arc of the map and populates the
\* region; `?` drops the clone
RegisteredNew(s, b, p, f) ==
    LET pop == MmapPopulate(s.mmap, s.doca_mmap, f)
        s1  == [s EXCEPT !.mmap = pop.w, !.doca_mmap = pop.b]
    IN  IF pop.ret # Ok THEN Done(s1, pop.ret, pop.calls)
        ELSE Done([s1 EXCEPT !.buf[b] = [st |-> "registered", head |-> p]],
                  Ok, pop.calls)

\* DOCARegisteredMemory::new_from_remote: clones the Arc of the map
RegisteredNewFromRemote(s, b, p) ==
    Done([s EXCEPT !.buf[b] = [st |-> "registered", head |-> p]], Ok, <<>>)

\* a DOCARegisteredMemory is dropped: its field mmap
RegisteredDrop(s, b, f) ==
    ReleaseMmap([s EXCEPT !.buf[b].st = "dropped"], f)

\* to_buffer was refused with code: Err(code) once self is dropped
ToBufferRefused(code, c1, d) ==
    Done(d.s, IF d.ret = Panic THEN Panic ELSE code, <<c1>> \o d.calls)

\* to_buffer as it would be if the data pointer it passes were the end of
\* the region
RegisteredToBuffer_DataAtEnd(s, b, f, mf) ==
    LET head == s.buf[b].head
        got  == doca_buf_inventory_buf_by_args(head.inner, head.payload,
                                               head.inner + head.payload, 0,
                                               Answer(1, f))
        c1   == Call("doca_buf_inventory_buf_by_args", b, got.r)
    IN  IF got.r # DOCA_SUCCESS
        THEN ToBufferRefused(got.r, c1, RegisteredDrop(s, b, mf))
        ELSE Done([s EXCEPT !.buf[b].st = "live", !.doca_buf[b] = got.b],
                  Ok, <<c1>>)

\* DOCARegisteredMemory::to_buffer: the region becomes the head of a buffer
\* of the inventory; when refused self is dropped
RegisteredToBuffer(s, b, f, mf) ==
    LET head == s.buf[b].head
        got  == doca_buf_inventory_buf_by_args(head.inner, head.payload,
                                               head.inner, 0, Answer(1, f))
        c1   == Call("doca_buf_inventory_buf_by_args", b, got.r)
    IN  IF got.r # DOCA_SUCCESS
        THEN ToBufferRefused(got.r, c1, RegisteredDrop(s, b, mf))
        ELSE Done([s EXCEPT !.buf[b].st = "live", !.doca_buf[b] = got.b],
                  Ok, <<c1>>)

\* the fields of a DOCABuffer are dropped: inv (i is what it left), then
\* mmap
BufferFields(i, mf) == Join(i, ReleaseMmap(i.s, mf))

\* a DOCABuffer is dropped: impl Drop for DOCABuffer, doca_buf_refcount_rm
\* with a panic when it is refused, then its fields inv and mmap
BufferDrop(s, b, ans, mf) ==
    LET rm == doca_buf_refcount_rm(s.doca_buf[b], ans)
        c1 == Call("doca_buf_refcount_rm", b, rm.r)
    IN  IF rm.r # DOCA_SUCCESS
        THEN Done([s EXCEPT !.buf[b].st = "panicked"], Panic, <<c1>>)
        ELSE Join(Done(s, Ok, <<c1>>),
                  BufferFields(ReleaseInv([s EXCEPT !.buf[b].st = "dropped",
                                                    !.doca_buf[b] = rm.b]), mf))

\* set_data as it would be if off were the length and sz the offset
BufferSetData_Swapped(s, b, off, sz, f) ==
    LET data == (s.buf[b].head.inner + sz) % (2 ^ PtrBits)
        set  == doca_buf_set_data(s.doca_buf[b], data, off, Answer(1, f))
        c1   == Call("doca_buf_set_data", <<b, data, off>>, set.r)
    IN  Done([s EXCEPT !.doca_buf[b] = set.b],
             IF set.r # DOCA_SUCCESS THEN set.r ELSE Ok, <<c1>>)

\* DOCABuffer::set_data: the data pointer is the head moved by off, an
\* addition of pointer width
BufferSetData(s, b, off, sz, f) ==
    LET data == (s.buf[b].head.inner + off) % (2 ^ PtrBits)
        set  == doca_buf_set_data(s.doca_buf[b], data, sz, Answer(1, f))
        c1   == Call("doca_buf_set_data", <<b, data, sz>>, set.r)
    IN  Done([s EXCEPT !.doca_buf[b] = set.b],
             IF set.r # DOCA_SUCCESS THEN set.r ELSE Ok, <<c1>>)

\* DOCABuffer::get_data: Ok(data), the pointer the native buffer wrote to
\* &mut data, recorded with the call
BufferGetData(s, b, f) ==
    LET get == doca_buf_get_data(s.doca_buf[b], Answer(1, f))
        c1  == Call("doca_buf_get_data", <<b, get.data>>, get.r)
    IN  Done(s, IF get.r # DOCA_SUCCESS THEN get.r ELSE Ok, <<c1>>)

\* DOCAWorkQueue::create_dma_job: the job takes a clone of the Arc of the
\* queue's context and owns the two buffers
CreateDmaJob(s, q, src, dst) ==
    Done([s EXCEPT !.job = [st |-> "live", ctx |-> s.workq[q].ctx,
                            src |-> src, dst |-> dst]], Ok, <<>>)

\* set_src as it would be if the buffer replaced were forgotten instead of
\* dropped
JobSetSrc_Forget(s, b, ans, mf) ==
    Done([s EXCEPT !.job.src = b], Ok, <<>>)

\* DOCADMAJob::set_src: the buffer replaced is dropped
JobSetSrc(s, b, ans, mf) ==
    BufferDrop([s EXCEPT !.job.src = b], s.job.src, ans, mf)

\* DOCADMAJob::set_dst: the buffer replaced is dropped
JobSetDst(s, b, ans, mf) ==
    BufferDrop([s EXCEPT !.job.dst = b], s.job.dst, ans, mf)

\* DOCADMAJob::set_data: set_data of the source buffer, with expect
JobSetData(s, off, sz, f) ==
    LET d == BufferSetData(s, s.job.src, off, sz, f)
    IN  Done(d.s, IF d.ret # Ok THEN Panic ELSE Ok, d.calls)

\* r, and then n unless r panicked
AndThen(r, n) == IF r.ret = Panic THEN r ELSE Join(r, n)

\* the buffers of a job are dropped, src_buff (b1 is what it left) and then
\* dst_buff
JobBuffers(b1, dst, a2, mf) == AndThen(b1, BufferDrop(b1.s, dst, a2, mf))

\* the fields of a job are dropped: ctx (c is what it left), then the
\* buffers
JobFields(c, src, dst, a1, a2, mf) ==
    AndThen(c, JobBuffers(BufferDrop(c.s, src, a1, mf), dst, a2, mf))

\* a DOCADMAJob is dropped: its fields ctx, src_buff and dst_buff in the
\* order of their declaration
JobDrop(s, cf, ea, a1, a2, mf) ==
    JobFields(ReleaseContext([s EXCEPT !.job.st = "dropped"], s.job.ctx, cf, ea),
              s.job.src, s.job.dst, a1, a2, mf)

----------------------------------------------------------------------------
(* The device registry: DeviceList, Device and the parent of a DevContext *)

\* the Arc<DeviceList> and the Arc<Device> objects
ListIds == {"l0", "l1"}
HandleIds == {"d0", "d1"}

\* doca_pci_bdf of the devices the library may enumerate: bus (8 bits),
\* device (5 bits), function (3 bits)
Bdfs == {[bus |-> 75, device |-> 0, function |-> 0],
         [bus |-> 75, device |-> 0, function |-> 1],
         [bus |-> 3, device |-> 31, function |-> 0]}

\* the lists the library may enumerate: no device is listed twice
PciLists ==
    {l \in UNION {[1 .. n -> Bdfs] : n \in 0 .. MaxDevices} :
        \A i, j \in 1 .. Len(l) : l[i] = l[j] => i = j}

\* format!("{:x}", n) for n < 16
LowerHex(n) ==
    <<"0", "1", "2", "3", "4", "5", "6", "7",
      "8", "9", "a", "b", "c", "d", "e", "f">>[n + 1]

\* the string Device::name formats, one character per element
FormatPci(bdf) ==
    <<LowerHex(bdf.bus \div 16), LowerHex(bdf.bus % 16), ":",
      LowerHex(bdf.device \div 16), LowerHex(bdf.device % 16), ".",
      LowerHex(bdf.function)>>

NoList == [st |-> "none", held |-> FALSE, destroys |-> 0]
NoDevice == [st |-> "none", inner |-> 0, parent_devlist |-> "none", held |-> FALSE]

\* nothing enumerated yet; pci is what the library will enumerate
NoRegistry(pci) ==
    [pci |-> pci,
     list |-> [l \in ListIds |-> NoList],
     device |-> [h \in HandleIds |-> NoDevice],
     parent |-> [d \in Devs |-> "none"]]

\* the registry after `devices().unwrap().get(i).unwrap().open().unwrap()`
\* for the two devices of a list: each DevContext holds its Device, each
\* Device holds the list, the caller holds neither
OpenedRegistry ==
    [pci |-> <<[bus |-> 75, device |-> 0, function |-> 0],
               [bus |-> 75, device |-> 0, function |-> 1]>>,
     list |-> [l \in ListIds |->
                 IF l = "l0" THEN [st |-> "alive", held |-> FALSE, destroys |-> 0]
                 ELSE NoList],
     device |-> [h \in HandleIds |->
                 IF h = "d0" THEN [st |-> "live", inner |-> 0,
                                   parent_devlist |-> "l0", held |-> FALSE]
                 ELSE IF h = "d1" THEN [st |-> "live", inner |-> 1,
                                        parent_devlist |-> "l0", held |-> FALSE]
                 ELSE NoDevice],
     parent |-> [d \in Devs |-> IF d = "dev0" THEN "d0" ELSE "d1"]]

\* the result of an operation of the registry
RegResult(reg, open, h, ret, calls) ==
    [reg |-> reg, open |-> open, held |-> h, ret |-> ret, calls |-> calls]

\* the release as it would be if a Device held no Arc of its list: the list
\* is destroyed as soon as the caller drops it
Released_NoParent(reg, open) ==
    [reg EXCEPT
       !.device = [h \in HandleIds |->
           IF /\ reg.device[h].st = "live" /\ ~reg.device[h].held
              /\ ~\E d \in Devs : open[d] /\ reg.parent[d] = h
           THEN [reg.device[h] EXCEPT !.st = "dropped"] ELSE reg.device[h]],
       !.list = [l \in ListIds |->
           IF reg.list[l].st = "alive" /\ ~reg.list[l].held
           THEN [reg.list[l] EXCEPT !.st = "destroyed", !.destroys = @ + 1]
           ELSE reg.list[l]]]

\* the Device objects nobody holds an Arc of are dropped, and with them their
\* Arc<DeviceList>; impl Drop for DeviceList is doca_devinfo_list_destroy and
\* runs when neither the caller nor a Device holds the list.  A Device is
\* held by the caller and by the open DevContext it is the parent of.
Released(reg, open) ==
    [reg EXCEPT
       !.device = [h \in HandleIds |->
           IF /\ reg.device[h].st = "live" /\ ~reg.device[h].held
              /\ ~\E d \in Devs : open[d] /\ reg.parent[d] = h
           THEN [reg.device[h] EXCEPT !.st = "dropped"] ELSE reg.device[h]],
       !.list = [l \in ListIds |->
           IF /\ reg.list[l].st = "alive" /\ ~reg.list[l].held
              /\ ~\E h \in HandleIds :
                    /\ reg.device[h].st = "live" /\ reg.device[h].parent_devlist = l
                    /\ \/ reg.device[h].held
                       \/ \E d \in Devs : open[d] /\ reg.parent[d] = h
           THEN [reg.list[l] EXCEPT !.st = "destroyed", !.destroys = @ + 1]
           ELSE reg.list[l]]]

\* the doca_devinfo_list_destroy calls that lead from reg to after
ListDestroys(reg, after) ==
    IF \E l \in ListIds : after.list[l].destroys > reg.list[l].destroys
    THEN <<Call("doca_devinfo_list_destroy",
                CHOOSE l \in ListIds : after.list[l].destroys > reg.list[l].destroys,
                DOCA_SUCCESS)>>
    ELSE <<>>

\* devices(): doca_devinfo_list_create; the list is the Arc l
DevicesNew(reg, open, h, l, ans) ==
    LET c1 == Call("doca_devinfo_list_create", "-", ans)
    IN  IF ans # DOCA_SUCCESS THEN RegResult(reg, open, h, ans, <<c1>>)
        ELSE RegResult([reg EXCEPT !.list[l] =
                           [st |-> "alive", held |-> TRUE, destroys |-> 0]],
                       open, h, Ok, <<c1>>)

\* DeviceList::len
DeviceListLen(reg) == Len(reg.pci)

\* get as it would be if the index one past the end were accepted
DeviceListGet_OnePast(reg, open, h, l, index, dh) ==
    IF index > DeviceListLen(reg) THEN RegResult(reg, open, h, "None", <<>>)
    ELSE RegResult([reg EXCEPT !.device[dh] =
                       [st |-> "live", inner |-> index,
                        parent_devlist |-> l, held |-> TRUE]],
                   open, h, "Some", <<>>)

\* DeviceList::get: None for an index out of bounds, otherwise the Arc dh of
\* a Device that holds a clone of the list
DeviceListGet(reg, open, h, l, index, dh) ==
    IF index >= DeviceListLen(reg) THEN RegResult(reg, open, h, "None", <<>>)
    ELSE RegResult([reg EXCEPT !.device[dh] =
                       [st |-> "live", inner |-> index,
                        parent_devlist |-> l, held |-> TRUE]],
                   open, h, "Some", <<>>)

\* Device::name: doca_devinfo_get_pci_addr, then the formatted address
DeviceName(reg, inner, ans) ==
    [ret |-> IF ans # DOCA_SUCCESS THEN ans ELSE Ok,
     name |-> IF ans # DOCA_SUCCESS THEN <<>> ELSE FormatPci(reg.pci[inner + 1]),
     calls |-> <<Call("doca_devinfo_get_pci_addr", inner, ans)>>]

\* Device::open, DevContext::with_device: doca_dev_open; the DevContext d
\* holds the Arc of its parent
DeviceOpen(reg, open, h, dh, d, ans) ==
    LET c1 == Call("doca_dev_open", reg.device[dh].inner, ans)
    IN  IF ans # DOCA_SUCCESS THEN RegResult(reg, open, h, ans, <<c1>>)
        ELSE RegResult([reg EXCEPT !.parent[d] = dh],
                       [open EXCEPT ![d] = TRUE], h \cup {d}, Ok, <<c1>>)

\* the loop of open_device_with_pci from index i on: the index of the first
\* device whose name equals pci, or the error the function returns
RECURSIVE ScanPci(_, _, _, _)
ScanPci(reg, i, pci, f) ==
    IF i >= DeviceListLen(reg)
    THEN [ret |-> DOCA_ERROR_INVALID_VALUE, index |-> i, calls |-> <<>>]
    ELSE LET n == DeviceName(reg, i, Answer(i + 2, f))
         IN  IF n.ret # Ok THEN [ret |-> n.ret, index |-> i, calls |-> n.calls]
             ELSE IF n.name = pci THEN [ret |-> Ok, index |-> i, calls |-> n.calls]
             ELSE LET rest == ScanPci(reg, i + 1, pci, f)
                  IN  [rest EXCEPT !.calls = n.calls \o @]

\* the locals dev_list and device of open_device_with_pci go out of scope
PciLocalsDropped(reg, open, l, dh) ==
    Released([reg EXCEPT !.list[l].held = FALSE, !.device[dh].held = FALSE], open)

\* open_device_with_pci after devices()?: the device the loop found is
\* opened, or the error of the loop is returned
PciOpenFound(created, scan, open, h, l, dh, d, ans) ==
    IF scan.ret # Ok
    THEN RegResult(PciLocalsDropped(created.reg, open, l, dh), open, h, scan.ret,
                   created.calls \o scan.calls \o
                   <<Call("doca_devinfo_list_destroy", l, DOCA_SUCCESS)>>)
    ELSE \* dev_list.get(i).unwrap() and device.open()
         LET got    == DeviceListGet(created.reg, open, h, l, scan.index, dh)
             opened == DeviceOpen(got.reg, open, h, dh, d, ans)
         IN  RegResult(PciLocalsDropped(opened.reg, opened.open, l, dh),
                       opened.open, opened.held, opened.ret,
                       created.calls \o scan.calls \o opened.calls \o
                       (IF opened.ret # Ok
                        THEN <<Call("doca_devinfo_list_destroy", l, DOCA_SUCCESS)>>
                        ELSE <<>>))

\* open_device_with_pci: devices()?, then the first device whose name equals
\* pci is opened; the list l and the Device dh are the Arcs it creates
OpenDeviceWithPci(reg, open, h, pci, l, dh, d, f) ==
    LET created == DevicesNew(reg, open, h, l, Answer(1, f))
        scan    == ScanPci(reg, 0, pci, f)
    IN  IF created.ret # Ok THEN created
        ELSE PciOpenFound(created, scan, open, h, l, dh, d,
                          Answer(scan.index + 3, f))

----------------------------------------------------------------------------
(* save_config and load_config: the two files of the hand-off *)

\* a file: whether it exists and its bytes or characters
NoFile == [exists |-> FALSE, data |-> <<>>]
\* struct LoadedInfo: the descriptor bytes with their length, and the
\* remote region
NoLoaded == [export_desc |-> <<>>, payload |-> 0, remote_addr |-> NoPointer]
NoConfig ==
    [export_desc_file |-> NoFile, buffer_info_file |-> NoFile, loaded |-> NoLoaded]

\* the result of save_config or load_config
ConfigResult(cfg, ret, calls) == [cfg |-> cfg, ret |-> ret, calls |-> calls]

DecDigits == <<"0", "1", "2", "3", "4", "5", "6", "7", "8", "9">>

\* format!("{}", n) of an unsigned integer
RECURSIVE FormatDec(_)
FormatDec(n) ==
    IF n < 10 THEN <<DecDigits[n + 1]>>
    ELSE FormatDec(n \div 10) \o <<DecDigits[(n % 10) + 1]>>

\* writeln!(file, "{}", n)
Writeln(n) == FormatDec(n) \o <<"\n">>

\* BufRead::read_line: the characters up to and including the first newline
LineEnd(data) ==
    IF \E i \in 1 .. Len(data) : data[i] = "\n"
    THEN CHOOSE i \in 1 .. Len(data) :
            data[i] = "\n" /\ \A j \in 1 .. i - 1 : data[j] # "\n"
    ELSE Len(data)
ReadLine(data) ==
    [line |-> SubSeq(data, 1, LineEnd(data)),
     rest |-> SubSeq(data, LineEnd(data) + 1, Len(data))]

\* str::trim: white space is taken off both ends
RECURSIVE Trim(_)
Trim(str) ==
    IF str = <<>> THEN str
    ELSE IF Head(str) \in {" ", "\n"} THEN Trim(Tail(str))
    ELSE IF str[Len(str)] \in {" ", "\n"} THEN Trim(SubSeq(str, 1, Len(str) - 1))
    ELSE str

\* str::parse of an unsigned integer: an error for an empty string and for
\* any character that is not a decimal digit
RECURSIVE DecValue(_)
DecValue(str) ==
    IF str = <<>> THEN 0
    ELSE DecValue(SubSeq(str, 1, Len(str) - 1)) * 10
         + (CHOOSE v \in 0 .. 9 : DecDigits[v + 1] = str[Len(str)])
ParseDec(str) ==
    IF str = <<>> \/ \E i \in 1 .. Len(str) : str[i] \notin Range(DecDigits)
    THEN [ok |-> FALSE, val |-> 0]
    ELSE [ok |-> TRUE, val |-> DecValue(str)]

\* the answers of the file system to an operation of n calls: every call
\* succeeds, or the i-th fails
IoEnv(R, op, n) ==
    IF op \in R THEN {0} \cup (1 .. n) ELSE {0}

\* the calls to the file system among names that an operation made when
\* the n-th was the first to fail (n = 0: none failed); the code of a call
\* is DOCA_SUCCESS for Ok and DOCA_ERROR_IO_FAILED for Err
IoCalls(names, n) ==
    [i \in 1 .. (IF n = 0 THEN Len(names) ELSE n) |->
        Call(names[i], "-", IF i = n THEN DOCA_ERROR_IO_FAILED ELSE DOCA_SUCCESS)]

\* save_config: File::create, write_all and flush of the descriptor, then
\* File::create, two writeln! and flush of the buffer information; every
\* failure is DOCA_ERROR_IO_FAILED
SaveConfig(cfg, export_desc, src_buffer, n) ==
    LET names == <<"File::create", "write_all", "flush",
                   "File::create", "writeln", "writeln", "flush">>
        desc  == IF n = 1 THEN cfg.export_desc_file
                 ELSE [exists |-> TRUE,
                       data |-> IF n = 2 THEN <<>> ELSE export_desc]
        info  == IF n \in 1 .. 4 THEN cfg.buffer_info_file
                 ELSE [exists |-> TRUE,
                       data |-> IF n = 5 THEN <<>>
                                ELSE IF n = 6 THEN Writeln(src_buffer.inner)
                                ELSE Writeln(src_buffer.inner)
                                     \o Writeln(src_buffer.payload)]
    IN  ConfigResult([cfg EXCEPT !.export_desc_file = desc,
                                 !.buffer_info_file = info],
                     IF n = 0 THEN Ok ELSE DOCA_ERROR_IO_FAILED,
                     IoCalls(names, n))

\* the first call of load_config to fail: File::open fails for a file that
\* does not exist, every call fails when the file system says so
LoadFailure(cfg, k) ==
    IF ~cfg.export_desc_file.exists THEN 1
    ELSE IF k \in 1 .. 3 THEN k
    ELSE IF ~cfg.buffer_info_file.exists THEN 4
    ELSE k

\* load_config after both files were read: the two lines are parsed, then
\* NonNull::new(remote_addr).unwrap()
LoadParse(cfg, size, first, second, calls) ==
    IF ~ParseDec(Trim(first)).ok
    THEN ConfigResult(cfg, DOCA_ERROR_INVALID_VALUE, SubSeq(calls, 1, 5))
    ELSE IF ~ParseDec(Trim(second)).ok
    THEN ConfigResult(cfg, DOCA_ERROR_INVALID_VALUE, calls)
    ELSE IF ParseDec(Trim(first)).val = 0
    THEN ConfigResult(cfg, Panic, calls)
    ELSE ConfigResult(
             [cfg EXCEPT !.loaded =
                 [export_desc |-> SubSeq(cfg.export_desc_file.data, 1, size),
                  payload |-> size,
                  remote_addr |-> [inner |-> ParseDec(Trim(first)).val,
                                   payload |-> ParseDec(Trim(second)).val]]],
             Ok, calls)

\* load_config: the descriptor file is read whole into a buffer of
\* DOCA_MAX_EXPORT_LENGTH bytes, sliced [..size] with the size of the file,
\* which panics for a longer file; then the two lines of the other file
LoadConfig(cfg, k) ==
    LET names == <<"File::open", "metadata", "read_exact",
                   "File::open", "read_line", "read_line">>
        n     == LoadFailure(cfg, k)
        size  == Len(cfg.export_desc_file.data)
        first == ReadLine(cfg.buffer_info_file.data)
    IN  IF n \in 1 .. 2
        THEN ConfigResult(cfg, DOCA_ERROR_IO_FAILED, IoCalls(names, n))
        ELSE IF size > DOCA_MAX_EXPORT_LENGTH
        THEN ConfigResult(cfg, Panic, SubSeq(IoCalls(names, 0), 1, 2))
        ELSE IF n # 0
        THEN ConfigResult(cfg, DOCA_ERROR_IO_FAILED, IoCalls(names, n))
        ELSE LoadParse(cfg, size, first.line, ReadLine(first.rest).line,
                       IoCalls(names, 0))

----------------------------------------------------------------------------
(* The state machine of the memory map *)

Last(op, arg, ret, calls) == [op |-> op, arg |-> arg, ret |-> ret, calls |-> calls]

\* a panic ends the program
Running == last.ret # Panic

\* the operations of the model
Ops ==
    {"new", "new_from_export", "export", "add_device", "rm_device",
     "populate", "drop", "DOCAContext::new", "drop(DOCAContext)",
     "DOCAWorkQueue::new", "drop(DOCAWorkQueue)", "drop(DMAEngine)",
     "BufferInventory::new", "DOCARegisteredMemory::new", "to_buffer",
     "drop(DOCABuffer)", "set_data", "get_data", "DOCADMAJob::set_data",
     "submit", "poll_completion", "depth",
     "WorkQueue::new", "WorkQueue::submit", "WorkQueue::poll_completion",
     "devices", "name", "open", "open_device_with_pci",
     "save_config", "load_config"}

\* the answers of the library to an operation of n FFI calls
Env(op, n) == IF op \in refusable THEN Fails(n) ELSE {NoFail}

\* the answers of the library to one FFI call of an operation
Answers(op) == IF op \in refusable THEN {DOCA_SUCCESS} \cup ErrCodes ELSE {DOCA_SUCCESS}

\* the indices a caller may pass: every valid one and one beyond MaxCtxLen
Indices == 0 .. MaxCtxLen

MmapApply(op, arg, result) ==
    \E res \in {result} :
    /\ mmap' = res.w
    /\ doca_mmap' = res.b
    /\ held' = IF res.w.st = "live" THEN held \cup {"mmap"} ELSE held \ {"mmap"}
    /\ last' = Last(op, arg, res.ret, res.calls)
    /\ UNCHANGED <<ctxVars, workqVars, devVars, refusable, invVars, bufVars, job, registry, config>>

NewMmap ==
    /\ Running /\ mmap.st = "none"
    /\ \E f \in Env("new", 3) :
          MmapApply("new", "-", MmapNew(f))

NewMmapFromExport ==
    /\ Running /\ mmap.st = "none"
    /\ \E dev \in Devs \cap held, f \in Env("new_from_export", 1) :
          MmapApply("new_from_export", dev, MmapNewFromExport(dev, f))

Export ==
    /\ Running /\ mmap.st = "live" /\ "mmap" \in held
    /\ MmapHolders(World) = {}
    /\ \E dev_index \in Indices, f \in Env("export", 1) :
          MmapApply("export", dev_index,
                    MmapExport(mmap, doca_mmap, dev_index, f))

AddDevice ==
    /\ Running /\ mmap.st = "live" /\ "mmap" \in held
    /\ MmapHolders(World) = {}
    /\ Len(mmap.ctx) < MaxCtxLen
    /\ \E dev \in Devs \cap held, f \in Env("add_device", 1) :
          MmapApply("add_device", dev,
                    MmapAddDevice(mmap, doca_mmap, dev, f))

RmDevice ==
    /\ Running /\ mmap.st = "live" /\ "mmap" \in held
    /\ \E dev_idx \in Indices, f \in Env("rm_device", 1) :
          MmapApply("rm_device", dev_idx,
                    MmapRmDevice(mmap, doca_mmap, dev_idx, f))

Populate ==
    /\ Running /\ mmap.st = "live" /\ "mmap" \in held
    /\ doca_mmap.chunks < MaxPopulate
    /\ \E f \in Env("populate", 1) :
          MmapApply("populate", "-", MmapPopulate(mmap, doca_mmap, f))

\* the caller drops its handle of the map; Drop runs when no registered
\* memory and no buffer holds an Arc of it
DropMmap ==
    /\ Running /\ mmap.st = "live" /\ "mmap" \in held
    /\ held' = held \ {"mmap"}
    /\ IF MmapHolders(World) # {}
       THEN /\ last' = Last("drop(Arc<DOCAMmap>)", "-", Ok, <<>>)
            /\ UNCHANGED <<mmapVars, doca_dev>>
       ELSE \E f \in Env("drop", Len(mmap.ctx)) :
            \E res \in {MmapDropAndClose(mmap, doca_mmap, doca_dev,
                                         held \ {"mmap"}, context, f)} :
                /\ mmap' = res.w
                /\ doca_mmap' = res.b
                /\ doca_dev' = res.doca_dev
                /\ last' = Last("drop", "-", res.ret, res.calls)
    /\ UNCHANGED <<ctxVars, workqVars, doca_dma, refusable, invVars, bufVars, job>>
    /\ registry' = Released(registry, doca_dev')
    /\ UNCHANGED config

\* the caller has opened the devices and created the engine, and holds an
\* Arc of each
InitWith(R) ==
    /\ mmap = NoMmap
    /\ doca_mmap = NoDocaMmap
    /\ context = [c \in CtxIds |-> NoContext]
    /\ doca_ctx = NoDocaCtx
    /\ workq = [q \in WqIds |-> NoWorkq]
    /\ doca_workq = [q \in WqIds |-> NoDocaWorkq]
    /\ last = Last("init", "-", Ok, <<>>)
    /\ held = {"engine"} \cup Devs
    /\ doca_dev = [d \in Devs |-> TRUE]
    /\ doca_dma = TRUE
    /\ refusable = R
    /\ inv = NoInv
    /\ doca_buf_inventory = NoDocaBufInventory
    /\ buf = [b \in BufIds |-> NoBuf]
    /\ doca_buf = [b \in BufIds |-> NoDocaBuf]
    /\ job = NoJob
    /\ registry = OpenedRegistry
    /\ config = NoConfig

Init == InitWith(Ops)

MmapNext ==
    \/ NewMmap
    \/ NewMmapFromExport
    \/ Export
    \/ AddDevice
    \/ RmDevice
    \/ Populate
    \/ DropMmap

MmapSpec == Init /\ [][MmapNext]_vars

----------------------------------------------------------------------------
(* The state machine of the context and its work queues *)

\* the device lists a caller may pass to DOCAContext::new, the empty one
\* included
DevLists == UNION {[1 .. n -> Devs] : n \in 0 .. MaxDevList}

\* the queues that hold an Arc of context c
QueuesOf(c) == {q \in WqIds : workq[q].st = "live" /\ workq[q].ctx = c}

NewContext(c) ==
    /\ Running /\ context[c].st \in {"none", "dropped"}
    /\ "engine" \in held
    /\ \E devs \in {l \in DevLists : Range(l) \subseteq held} :
       \E f \in Env("DOCAContext::new", Len(devs) + 1) :
       \E df \in IF f = NoFail THEN {NoFail}
                 ELSE IF f[1] <= Len(devs) THEN Env("DOCAContext::new", 1)
                 ELSE Env("DOCAContext::new", Len(devs) + 1) :
          \E res \in {ContextNew(doca_ctx, devs, f, df)} :
              /\ context' = [context EXCEPT ![c] = res.w]
              /\ doca_ctx' = res.b
              /\ last' = Last("DOCAContext::new", <<c, devs>>, res.ret, res.calls)
    /\ UNCHANGED <<mmapVars, workqVars, held, devVars, refusable, invVars, bufVars, job, registry, config>>

\* the caller drops its Arc<DOCAContext>; Drop runs when no queue and no job
\* holds one
DropContext(c) ==
    /\ Running /\ context[c].st = "live" /\ context[c].handle
    /\ IF CtxHolders(World, c) # {}
       THEN /\ context' = [context EXCEPT ![c].handle = FALSE]
            /\ last' = Last("drop(Arc<DOCAContext>)", c, Ok, <<>>)
            /\ UNCHANGED <<doca_ctx, devVars>>
       ELSE \E f \in Env("drop(DOCAContext)", Len(context[c].added_devs) + 1) :
            \E ea \in IF "engine" \in held THEN {DOCA_SUCCESS}
                      ELSE Answers("drop(DMAEngine)") :
            \E res \in {DropArcContext(c, context, doca_ctx, doca_dma, doca_dev,
                                       held, mmap, f, ea)} :
                /\ context' = res.context
                /\ doca_ctx' = res.doca_ctx
                /\ doca_dma' = res.doca_dma
                /\ doca_dev' = res.doca_dev
                /\ last' = Last("drop(DOCAContext)", c, res.ret, res.calls)
    /\ UNCHANGED <<mmapVars, workqVars, held, refusable, invVars, bufVars, job>>
    /\ registry' = Released(registry, doca_dev')
    /\ UNCHANGED config

NewWorkq(q, c) ==
    /\ Running /\ workq[q].st \in {"none", "dropped"}
    /\ context[c].st = "live" /\ context[c].handle
    /\ \E depth \in 1 .. MaxDepth, f \in Env("DOCAWorkQueue::new", 2) :
       \E df \in IF f[1] = 2 THEN Env("DOCAWorkQueue::new", 1) ELSE {NoFail} :
          \E res \in {WorkqNew(q, c, depth, doca_ctx, f, df)} :
              /\ workq' = [workq EXCEPT ![q] = res.w]
              /\ doca_workq' = [doca_workq EXCEPT ![q] = res.bq]
              /\ doca_ctx' = res.bc
              /\ last' = Last("DOCAWorkQueue::new", <<q, c, depth>>, res.ret, res.calls)
    /\ UNCHANGED <<mmapVars, context, held, devVars, refusable, invVars, bufVars, job, registry, config>>

\* the caller drops the queue: Drop::drop, then its field ctx, which drops
\* the context when this was the last Arc of it
DropWorkq(q) ==
    /\ Running /\ workq[q].st = "live"
    /\ \E f \in Env("drop(DOCAWorkQueue)", 1) :
       \E res \in {WorkqDrop(q, workq[q], doca_workq[q], doca_ctx, f)} :
          /\ workq' = [workq EXCEPT ![q] = res.w]
          /\ doca_workq' = [doca_workq EXCEPT ![q] = res.bq]
          /\ IF /\ res.ret = Ok
                /\ ~context[workq[q].ctx].handle
                /\ CtxHolders(World, workq[q].ctx) = {q}
             THEN \E cf \in Env("drop(DOCAContext)",
                                Len(context[workq[q].ctx].added_devs) + 1) :
                  \E ea \in IF "engine" \in held THEN {DOCA_SUCCESS}
                            ELSE Answers("drop(DMAEngine)") :
                  \E cres \in {DropArcContext(workq[q].ctx, context, res.bc,
                                              doca_dma, doca_dev, held, mmap,
                                              cf, ea)} :
                      /\ context' = cres.context
                      /\ doca_ctx' = cres.doca_ctx
                      /\ doca_dma' = cres.doca_dma
                      /\ doca_dev' = cres.doca_dev
                      /\ last' = Last("drop(DOCAWorkQueue)", q, cres.ret,
                                      res.calls \o cres.calls)
             ELSE /\ context' = context
                  /\ doca_ctx' = res.bc
                  /\ last' = Last("drop(DOCAWorkQueue)", q, res.ret, res.calls)
                  /\ UNCHANGED devVars
    /\ UNCHANGED <<mmapVars, held, refusable, invVars, bufVars, job>>
    /\ registry' = Released(registry, doca_dev')
    /\ UNCHANGED config

\* the caller drops its Arc<DevContext> of device d
DropDev(d) ==
    /\ Running /\ d \in held
    /\ \E cl \in {CloseDevs(doca_dev, <<d>>, DevsHeld(held \ {d}, context, mmap))} :
          /\ held' = held \ {d}
          /\ doca_dev' = cl.open
          /\ last' = Last("drop(Arc<DevContext>)", d, Ok, cl.calls)
    /\ UNCHANGED <<mmapVars, ctxVars, workqVars, doca_dma, refusable, invVars, bufVars, job>>
    /\ registry' = Released(registry, doca_dev')
    /\ UNCHANGED config

\* the caller drops its Arc<DMAEngine>; Drop runs when no context holds one
DropEngine ==
    /\ Running /\ "engine" \in held
    /\ held' = held \ {"engine"}
    /\ IF \E c \in CtxIds : context[c].st = "live"
       THEN /\ last' = Last("drop(Arc<DMAEngine>)", "-", Ok, <<>>)
            /\ UNCHANGED doca_dma
       ELSE \E ea \in Answers("drop(DMAEngine)") :
            \E eng \in {doca_dma_destroy(doca_dma, ea)} :
                /\ doca_dma' = eng.alive
                /\ last' = Last("drop(DMAEngine)", "-",
                                IF eng.r # DOCA_SUCCESS THEN Panic ELSE Ok,
                                <<Call("doca_dma_destroy", "-", eng.r)>>)
    /\ UNCHANGED <<mmapVars, ctxVars, workqVars, doca_dev, refusable, invVars, bufVars, job, registry, config>>

CtxNext ==
    \/ NewContext("ctx0")
    \/ DropContext("ctx0")
    \/ NewWorkq("wq0", "ctx0")
    \/ DropWorkq("wq0")

CtxSpec == Init /\ [][CtxNext]_vars

\* the teardown of a map whose devices may be removed and of a context:
\* the operations that build them, and their Drop
TeardownNext ==
    \/ NewMmap
    \/ AddDevice
    \/ DropMmap
    \/ NewContext("ctx0")
    \/ DropContext("ctx0")

TeardownSpec == Init /\ [][TeardownNext]_vars

\* the caller drops its handles of the engine, the devices, a context and
\* its queue in any order
OwnerNext ==
    \/ NewContext("ctx0")
    \/ DropContext("ctx0")
    \/ NewWorkq("wq0", "ctx0")
    \/ DropWorkq("wq0")
    \/ \E d \in Devs : DropDev(d)
    \/ DropEngine

OwnerSpec == Init /\ [][OwnerNext]_vars

\* a local map that may be exported, or a remote map, and the devices
\* registered with it: the caller drops its handles of the devices and the
\* map in any order; the library may refuse the calls of the map's Drop
ExportedInit == InitWith({"drop"})

ExportedNext ==
    \/ NewMmap
    \/ NewMmapFromExport
    \/ AddDevice
    \/ Export
    \/ DropMmap
    \/ \E d \in Devs : DropDev(d)

ExportedSpec == ExportedInit /\ [][ExportedNext]_vars

\* several queues are attached to one context, and the caller drops them
\* and its Arc of the context in any order; neither DOCAWorkQueue nor
\* DOCAContext is Send (both hold a NonNull), so the drops of the queues
\* of one context are serialized: each Drop runs to its end before the
\* next one starts.  The library may refuse the calls of either Drop.
QueuesInit == InitWith({"drop(DOCAWorkQueue)", "drop(DOCAContext)"})

QueuesNext ==
    \/ NewContext("ctx0")
    \/ DropContext("ctx0")
    \/ \E q \in WqIds : NewWorkq(q, "ctx0")
    \/ \E q \in WqIds : DropWorkq(q)

QueuesSpec == QueuesInit /\ [][QueuesNext]_vars

\* the devices are shared by the caller, a map and a context, and each
\* owner is dropped in any order; the library may refuse the calls of Drop
ShareInit == InitWith({"drop", "drop(DOCAContext)"})

ShareNext ==
    \/ NewMmap
    \/ AddDevice
    \/ DropMmap
    \/ NewContext("ctx0")
    \/ DropContext("ctx0")
    \/ \E d \in Devs : DropDev(d)

ShareSpec == ShareInit /\ [][ShareNext]_vars

----------------------------------------------------------------------------
(* The state machine of the buffers and of the job *)

\* the operation leaves the objects of res.s
Commit(op, arg, res) ==
    /\ mmap' = res.s.mmap
    /\ doca_mmap' = res.s.doca_mmap
    /\ context' = res.s.context
    /\ doca_ctx' = res.s.doca_ctx
    /\ doca_dev' = res.s.doca_dev
    /\ doca_dma' = res.s.doca_dma
    /\ held' = res.s.held
    /\ inv' = res.s.inv
    /\ doca_buf_inventory' = res.s.doca_buf_inventory
    /\ buf' = res.s.buf
    /\ doca_buf' = res.s.doca_buf
    /\ job' = res.s.job
    /\ last' = Last(op, arg, res.ret, res.calls)
    /\ UNCHANGED refusable
    /\ registry' = Released(registry, doca_dev')
    /\ UNCHANGED config

\* the answers to the drops an operation sets off: of the context, of the
\* engine, of a buffer, of the map
CtxDropEnv(c) == Env("drop(DOCAContext)", Len(context[c].added_devs) + 1)
MmapDropEnv == Env("drop", Len(mmap.ctx))

NewInv ==
    /\ Running /\ inv.st = "none"
    /\ \E f \in Env("BufferInventory::new", 2) :
       \E res \in {InvNew(f)} :
          /\ inv' = res.w
          /\ doca_buf_inventory' = res.b
          /\ held' = IF res.ret = Ok THEN held \cup {"inv"} ELSE held
          /\ last' = Last("BufferInventory::new", "-", res.ret, res.calls)
    /\ UNCHANGED <<mmapVars, ctxVars, workqVars, devVars, refusable, bufVars, job, registry, config>>

\* the caller drops its Arc<BufferInventory>
DropInv ==
    /\ Running /\ "inv" \in held
    /\ \E res \in {ReleaseInv([World EXCEPT !.held = held \ {"inv"}])} :
          Commit("drop(Arc<BufferInventory>)", "-", res)
    /\ UNCHANGED workqVars

\* DOCARegisteredMemory::new with a region out of P
Register(b, P) ==
    /\ Running /\ buf[b].st = "none"
    /\ mmap.st = "live" /\ "mmap" \in held
    /\ doca_mmap.chunks < MaxPopulate
    /\ \E p \in P, f \in Env("DOCARegisteredMemory::new", 1) :
       \E res \in {RegisteredNew(World, b, p, f)} :
          Commit("DOCARegisteredMemory::new", <<b, p>>, res)
    /\ UNCHANGED workqVars

\* DOCARegisteredMemory::new_from_remote with a region out of P
RegisterRemote(b, P) ==
    /\ Running /\ buf[b].st = "none"
    /\ mmap.st = "live" /\ "mmap" \in held
    /\ \E p \in P :
       \E res \in {RegisteredNewFromRemote(World, b, p)} :
          Commit("DOCARegisteredMemory::new_from_remote", <<b, p>>, res)
    /\ UNCHANGED workqVars

ToBuffer(b) ==
    /\ Running /\ buf[b].st = "registered"
    /\ inv.st = "live" /\ "inv" \in held
    /\ \E f \in Env("to_buffer", 1) :
       \E mf \in IF f = NoFail THEN {NoFail} ELSE MmapDropEnv :
       \E res \in {RegisteredToBuffer(World, b, f, mf)} :
          Commit("to_buffer", b, res)
    /\ UNCHANGED workqVars

\* the caller drops a DOCARegisteredMemory
DropRegistered(b) ==
    /\ Running /\ buf[b].st = "registered"
    /\ \E mf \in MmapDropEnv :
       \E res \in {RegisteredDrop(World, b, mf)} :
          Commit("drop(DOCARegisteredMemory)", b, res)
    /\ UNCHANGED workqVars

\* the caller drops a DOCABuffer it owns
DropBuffer(b) ==
    /\ Running /\ buf[b].st = "live" /\ b \notin InJob(job)
    /\ \E ans \in Answers("drop(DOCABuffer)"), mf \in MmapDropEnv :
       \E res \in {BufferDrop(World, b, ans, mf)} :
          Commit("drop(DOCABuffer)", b, res)
    /\ UNCHANGED workqVars

SetData(b) ==
    /\ Running /\ buf[b].st = "live" /\ b \notin InJob(job)
    /\ \E off \in USize, sz \in USize, f \in Env("set_data", 1) :
       \E res \in {BufferSetData(World, b, off, sz, f)} :
          Commit("set_data", <<b, off, sz>>, res)
    /\ UNCHANGED workqVars

GetData(b) ==
    /\ Running /\ buf[b].st = "live" /\ b \notin InJob(job)
    /\ \E f \in Env("get_data", 1) :
       \E res \in {BufferGetData(World, b, f)} :
          Commit("get_data", b, res)
    /\ UNCHANGED workqVars

CreateJob(q) ==
    /\ Running /\ workq[q].st = "live" /\ job.st = "none"
    /\ \E src, dst \in {b \in BufIds : buf[b].st = "live"} :
          /\ src # dst
          /\ \E res \in {CreateDmaJob(World, q, src, dst)} :
                Commit("create_dma_job", <<q, src, dst>>, res)
    /\ UNCHANGED workqVars

SetSrc ==
    /\ Running /\ job.st = "live"
    /\ \E b \in {x \in BufIds : buf[x].st = "live"} \ InJob(job) :
       \E ans \in Answers("drop(DOCABuffer)"), mf \in MmapDropEnv :
       \E res \in {JobSetSrc(World, b, ans, mf)} :
          Commit("set_src", b, res)
    /\ UNCHANGED workqVars

SetDst ==
    /\ Running /\ job.st = "live"
    /\ \E b \in {x \in BufIds : buf[x].st = "live"} \ InJob(job) :
       \E ans \in Answers("drop(DOCABuffer)"), mf \in MmapDropEnv :
       \E res \in {JobSetDst(World, b, ans, mf)} :
          Commit("set_dst", b, res)
    /\ UNCHANGED workqVars

SetJobData ==
    /\ Running /\ job.st = "live"
    /\ \E off \in USize, sz \in USize, f \in Env("DOCADMAJob::set_data", 1) :
       \E res \in {JobSetData(World, off, sz, f)} :
          Commit("DOCADMAJob::set_data", <<off, sz>>, res)
    /\ UNCHANGED workqVars

\* the caller drops the job
DropJob ==
    /\ Running /\ job.st = "live"
    /\ \E cf \in CtxDropEnv(job.ctx) :
       \E ea \in IF "engine" \in held THEN {DOCA_SUCCESS}
                 ELSE Answers("drop(DMAEngine)") :
       \E a1, a2 \in Answers("drop(DOCABuffer)") :
       \E mf \in MmapDropEnv :
       \E res \in {JobDrop(World, cf, ea, a1, a2, mf)} :
          Commit("drop(DOCADMAJob)", <<job.src, job.dst>>, res)
    /\ UNCHANGED workqVars

Submit(q) ==
    /\ Running /\ workq[q].st = "live" /\ job.st = "live"
    /\ \E ans \in Answers("submit") :
       \E res \in {WorkqSubmit(q, doca_workq[q], ans)} :
          /\ doca_workq' = [doca_workq EXCEPT ![q] = res.bq]
          /\ last' = Last("submit", q, res.ret, res.calls)
    /\ UNCHANGED <<mmapVars, ctxVars, workq, held, devVars, refusable,
                   invVars, bufVars, job, registry, config>>

\* what the library may say to a retrieve: a completion, nothing yet, or,
\* where it may refuse, an error
PollAnswers == {DOCA_SUCCESS, DOCA_ERROR_AGAIN} \cup Answers("poll_completion")

PollCompletion(q) ==
    /\ Running /\ workq[q].st = "live"
    /\ \E ans \in PollAnswers :
       \E res \in {WorkqPollCompletion(q, doca_workq[q], ans)} :
          /\ doca_workq' = [doca_workq EXCEPT ![q] = res.bq]
          /\ last' = Last("poll_completion", q, res.ret, res.calls)
    /\ UNCHANGED <<mmapVars, ctxVars, workq, held, devVars, refusable,
                   invVars, bufVars, job, registry, config>>

\* the caller asks the depth of queue q; arg records the queue and the
\* value returned
Depth(q) ==
    /\ Running /\ workq[q].st = "live"
    /\ last' = Last("depth", <<q, WorkqDepth(workq[q], doca_workq[q])>>, Ok, <<>>)
    /\ UNCHANGED <<mmapVars, ctxVars, workqVars, held, devVars, refusable,
                   invVars, bufVars, job, registry, config>>

\* no call of WorkQueue::poll_completion is inside its loop
Returned == last.ret # Pending

OldApply(op, q, arg, res) ==
    /\ workq' = [workq EXCEPT ![q] = res.w]
    /\ doca_workq' = [doca_workq EXCEPT ![q] = res.bq]
    /\ last' = Last(op, arg, res.ret, res.calls)
    /\ UNCHANGED <<mmapVars, ctxVars, held, devVars, refusable, invVars,
                   bufVars, job, registry, config>>

OldNewWorkq(q) ==
    /\ Running /\ Returned /\ workq[q].st \in {"none", "dropped"}
    /\ \E depth \in 1 .. MaxDepth, ans \in Answers("WorkQueue::new") :
          OldApply("WorkQueue::new", q, <<q, depth>>, WorkQueueNew(depth, ans))

OldDropWorkq(q) ==
    /\ Running /\ Returned /\ workq[q].st = "live"
    /\ OldApply("drop(WorkQueue)", q, q,
                WorkQueueDrop(q, workq[q], doca_workq[q]))

\* WorkQueue::submit: doca_workq_submit of a job the caller built
OldSubmit(q) ==
    /\ Running /\ Returned /\ workq[q].st = "live"
    /\ \E ans \in Answers("WorkQueue::submit") :
       \E res \in {WorkqSubmit(q, doca_workq[q], ans)} :
          OldApply("WorkQueue::submit", q, q,
                   [w |-> workq[q], bq |-> res.bq, ret |-> res.ret,
                    calls |-> res.calls])

\* what the library may say to a retrieve of WorkQueue::poll_completion
OldPollAnswers ==
    {DOCA_SUCCESS, DOCA_ERROR_AGAIN} \cup Answers("WorkQueue::poll_completion")

\* the caller calls WorkQueue::poll_completion: its first attempt
OldPollCompletion(q) ==
    /\ Running /\ Returned /\ workq[q].st = "live"
    /\ \E ans \in OldPollAnswers :
       \E res \in {WorkQueueRetrieve(q, doca_workq[q], ans, <<>>)} :
          OldApply("WorkQueue::poll_completion", q, q,
                   [w |-> workq[q], bq |-> res.bq, ret |-> res.ret,
                    calls |-> res.calls])

\* one turn of the loop of WorkQueue::poll_completion
OldPollSpin(q) ==
    /\ last.op = "WorkQueue::poll_completion" /\ last.arg = q
    /\ last.ret = Pending
    /\ \E ans \in OldPollAnswers :
       \E res \in {WorkQueueRetrieve(q, doca_workq[q], ans, last.calls)} :
          OldApply("WorkQueue::poll_completion", q, q,
                   [w |-> workq[q], bq |-> res.bq, ret |-> res.ret,
                    calls |-> res.calls])

\* a turn of the loop in which the engine answers something other than
\* DOCA_ERROR_AGAIN
OldPollAnswered(q) == OldPollSpin(q) /\ last'.calls[Len(last'.calls)].r # DOCA_ERROR_AGAIN

\* the region of the buffers of a job
JobPointers == {[inner |-> 1, payload |-> MaxPayload]}

\* a queue of a context on one device, and a job on two buffers of a map:
\* submit and poll_completion
QueueInit == InitWith({"poll_completion"})

QueueNext ==
    \/ NewMmap
    \/ NewInv
    \/ \E b \in {"b0", "b1"} : Register(b, JobPointers)
    \/ \E b \in {"b0", "b1"} : ToBuffer(b)
    \/ NewContext("ctx0") /\ last'.arg[2] = <<"dev0">>
    \/ NewWorkq("wq0", "ctx0")
    \/ CreateJob("wq0")
    \/ Submit("wq0")
    \/ PollCompletion("wq0")

QueueSpec == QueueInit /\ [][QueueNext]_vars

\* the same queue and job, with a caller that may drop the job at any
\* time, also while it is submitted
InflightInit == InitWith({"poll_completion"})

InflightNext ==
    \/ NewMmap
    \/ NewInv
    \/ \E b \in {"b0", "b1"} : Register(b, JobPointers)
    \/ \E b \in {"b0", "b1"} : ToBuffer(b)
    \/ NewContext("ctx0") /\ last'.arg[2] = <<"dev0">>
    \/ NewWorkq("wq0", "ctx0")
    \/ CreateJob("wq0")
    \/ Submit("wq0")
    \/ PollCompletion("wq0")
    \/ DropJob

InflightSpec == InflightInit /\ [][InflightNext]_vars

\* the same queue and job, with a caller that also asks the depth of the
\* queue between the submits and the polls
DepthInit == InitWith({"submit", "poll_completion"})

DepthNext ==
    \/ NewMmap
    \/ NewInv
    \/ \E b \in {"b0", "b1"} : Register(b, JobPointers)
    \/ \E b \in {"b0", "b1"} : ToBuffer(b)
    \/ NewContext("ctx0") /\ last'.arg[2] = <<"dev0">>
    \/ NewWorkq("wq0", "ctx0")
    \/ CreateJob("wq0")
    \/ Submit("wq0")
    \/ PollCompletion("wq0")
    \/ Depth("wq0")

DepthSpec == DepthInit /\ [][DepthNext]_vars

\* the WorkQueues of context.rs: new, submit, the busy-looping
\* poll_completion and Drop; the library may refuse a submit or a retrieve
SpinInit == InitWith({"WorkQueue::submit", "WorkQueue::poll_completion"})

\* a turn of the loop of the call that is inside it, answered with
\* something other than DOCA_ERROR_AGAIN
SpinAnswered == \E q \in WqIds : OldPollAnswered(q)

SpinNext ==
    \/ \E q \in WqIds : OldNewWorkq(q)
    \/ \E q \in WqIds : OldSubmit(q)
    \/ \E q \in WqIds : OldPollCompletion(q)
    \/ \E q \in WqIds : OldPollSpin(q)
    \/ \E q \in WqIds : OldDropWorkq(q)

\* the engine eventually answers a retrieve of the loop with something
\* other than DOCA_ERROR_AGAIN
SpinSpec == SpinInit /\ [][SpinNext]_vars /\ WF_vars(SpinAnswered)

\* the full chain of test_create_dma_job, with a device registered into the
\* map, built in any order the operations allow and dropped in any order;
\* the library refuses nothing
ChainInit == InitWith({})

ChainNext ==
    \/ NewMmap
    \/ AddDevice /\ mmap.ctx = <<>>
    \/ NewInv
    \/ \E b \in {"b0", "b1"} : Register(b, JobPointers)
    \/ \E b \in {"b0", "b1"} : ToBuffer(b)
    \/ NewContext("ctx0") /\ last'.arg[2] = <<"dev0">>
    \/ NewWorkq("wq0", "ctx0") /\ last'.arg[3] = 1
    \/ CreateJob("wq0")
    \/ DropJob
    \/ \E b \in {"b0", "b1"} : DropBuffer(b)
    \/ \E b \in {"b0", "b1"} : DropRegistered(b)
    \/ DropInv
    \/ DropMmap
    \/ DropWorkq("wq0")
    \/ DropContext("ctx0")
    \/ \E d \in Devs : DropDev(d)
    \/ DropEngine

ChainSpec == ChainInit /\ [][ChainNext]_vars

\* a job and its buffers: the job is created, its buffers are replaced, and
\* everything is dropped in any order; the library may refuse the release
\* of a buffer
JobInit == InitWith({"drop(DOCABuffer)"})

JobNext ==
    \/ NewMmap
    \/ NewInv
    \/ \E b \in {"b0", "b1"} : Register(b, JobPointers)
    \/ RegisterRemote("b2", JobPointers)
    \/ \E b \in BufIds : ToBuffer(b)
    \/ NewContext("ctx0") /\ last'.arg[2] = <<"dev0">>
    \/ NewWorkq("wq0", "ctx0") /\ last'.arg[3] = 1
    \/ CreateJob("wq0")
    \/ SetSrc
    \/ SetDst
    \/ DropJob
    \/ \E b \in BufIds : DropBuffer(b)
    \/ DropInv
    \/ DropMmap
    \/ DropWorkq("wq0")
    \/ DropContext("ctx0")

JobSpec == JobInit /\ [][JobNext]_vars

\* one buffer on a region of any address and length: set_data and get_data;
\* the library refuses only a range outside the head
BufInit == InitWith({})

\* the regions of the buffer: at the lowest address, and as high as a region
\* of MaxPayload bytes can lie
BufPointers ==
    {p \in Pointers : p.inner \in {1, 2 ^ PtrBits - 1 - MaxPayload}}

BufNext ==
    \/ NewMmap
    \/ NewInv
    \/ Register("b0", BufPointers)
    \/ ToBuffer("b0")
    \/ SetData("b0")
    \/ GetData("b0")

BufSpec == BufInit /\ [][BufNext]_vars

\* the operations of the public API that are not destructors, on any input;
\* the library may refuse the calls of DOCAWorkQueue::new and of
\* DOCADMAJob::set_data
ApiInit == InitWith({"DOCAWorkQueue::new", "DOCADMAJob::set_data"})

ApiNext ==
    \/ NewMmap
    \/ AddDevice /\ mmap.ctx = <<>>
    \/ RmDevice
    \/ Export
    \/ NewInv
    \/ \E b \in {"b0", "b1"} : Register(b, JobPointers)
    \/ \E b \in {"b0", "b1"} : ToBuffer(b)
    \/ NewContext("ctx0")
    \/ NewWorkq("wq0", "ctx0")
    \/ CreateJob("wq0")
    \/ SetJobData

ApiSpec == ApiInit /\ [][ApiNext]_vars

----------------------------------------------------------------------------
(* The state machine of the device registry *)

\* the addresses a caller asks for: the formatted address of a device in
\* lower and in upper case, and one that no device has
UpperPci(name) ==
    [i \in 1 .. Len(name) |->
        CASE name[i] = "a" -> "A" [] name[i] = "b" -> "B" [] name[i] = "c" -> "C"
          [] name[i] = "d" -> "D" [] name[i] = "e" -> "E" [] name[i] = "f" -> "F"
          [] OTHER -> name[i]]
PciArgs ==
    {FormatPci(b) : b \in Bdfs} \cup {UpperPci(FormatPci(b)) : b \in Bdfs}
    \cup {<<"0", "0", ":", "0", "0", ".", "0">>}

\* the Arc objects and the DevContext not in use yet
FreeLists == {l \in ListIds : registry.list[l].st = "none"}
FreeHandles == {h \in HandleIds : registry.device[h].st = "none"}
FreeDevs == {d \in Devs : registry.parent[d] = "none"}

RegApply(op, arg, result) ==
    \E res \in {result} :
    /\ registry' = res.reg
    /\ doca_dev' = res.open
    /\ held' = res.held
    /\ last' = Last(op, arg, res.ret, res.calls)
    /\ UNCHANGED <<mmapVars, ctxVars, workqVars, doca_dma, refusable, invVars,
                   bufVars, job, config>>

EnumerateDevices ==
    /\ Running /\ FreeLists # {}
    /\ \E ans \in Answers("devices") :
          RegApply("devices", "-",
                   DevicesNew(registry, doca_dev, held,
                              CHOOSE l \in FreeLists : TRUE, ans))

\* get with every index up to one beyond the longest list
GetDevice(l) ==
    /\ Running /\ registry.list[l].st = "alive" /\ registry.list[l].held
    /\ FreeHandles # {}
    /\ \E index \in 0 .. MaxDevices :
          RegApply("get", <<l, index>>,
                   DeviceListGet(registry, doca_dev, held, l, index,
                                 CHOOSE h \in FreeHandles : TRUE))

NameOfDevice(dh) ==
    /\ Running /\ registry.device[dh].st = "live" /\ registry.device[dh].held
    /\ \E ans \in Answers("name") :
       \E n \in {DeviceName(registry, registry.device[dh].inner, ans)} :
          /\ last' = Last("name", <<dh, n.name>>, n.ret, n.calls)
          /\ UNCHANGED <<mmapVars, ctxVars, workqVars, devVars, refusable,
                         invVars, bufVars, job, registry, held, config>>

OpenDevice(dh) ==
    /\ Running /\ registry.device[dh].st = "live" /\ registry.device[dh].held
    /\ FreeDevs # {}
    /\ \E ans \in Answers("open") :
          RegApply("open", dh,
                   DeviceOpen(registry, doca_dev, held, dh,
                              CHOOSE d \in FreeDevs : TRUE, ans))

OpenWithPci ==
    /\ Running /\ FreeLists # {} /\ FreeHandles # {} /\ FreeDevs # {}
    /\ \E pci \in PciArgs :
       \E f \in Env("open_device_with_pci", DeviceListLen(registry) + 2) :
          RegApply("open_device_with_pci", pci,
                   OpenDeviceWithPci(registry, doca_dev, held, pci,
                                     CHOOSE l \in FreeLists : TRUE,
                                     CHOOSE h \in FreeHandles : TRUE,
                                     CHOOSE d \in FreeDevs : TRUE, f))

\* the caller drops its Arc<DeviceList>
DropList(l) ==
    /\ Running /\ registry.list[l].st = "alive" /\ registry.list[l].held
    /\ \E after \in {Released([registry EXCEPT !.list[l].held = FALSE], doca_dev)} :
          RegApply("drop(Arc<DeviceList>)", l,
                   RegResult(after, doca_dev, held, Ok, ListDestroys(registry, after)))

\* the caller drops its Arc<Device>
DropDevice(dh) ==
    /\ Running /\ registry.device[dh].st = "live" /\ registry.device[dh].held
    /\ \E after \in {Released([registry EXCEPT !.device[dh].held = FALSE], doca_dev)} :
          RegApply("drop(Arc<Device>)", dh,
                   RegResult(after, doca_dev, held, Ok, ListDestroys(registry, after)))

\* nothing is enumerated or opened yet
RegInitWith(R) ==
    /\ mmap = NoMmap
    /\ doca_mmap = NoDocaMmap
    /\ context = [c \in CtxIds |-> NoContext]
    /\ doca_ctx = NoDocaCtx
    /\ workq = [q \in WqIds |-> NoWorkq]
    /\ doca_workq = [q \in WqIds |-> NoDocaWorkq]
    /\ last = Last("init", "-", Ok, <<>>)
    /\ held = {"engine"}
    /\ doca_dev = [d \in Devs |-> FALSE]
    /\ doca_dma = TRUE
    /\ refusable = R
    /\ inv = NoInv
    /\ doca_buf_inventory = NoDocaBufInventory
    /\ buf = [b \in BufIds |-> NoBuf]
    /\ doca_buf = [b \in BufIds |-> NoDocaBuf]
    /\ job = NoJob
    /\ \E pci \in PciLists : registry = NoRegistry(pci)
    /\ config = NoConfig

\* the library may refuse to enumerate, to tell an address and to open
RegInit == RegInitWith({"devices", "name", "open"})

RegNext ==
    \/ EnumerateDevices
    \/ \E l \in ListIds : GetDevice(l)
    \/ \E dh \in HandleIds : NameOfDevice(dh)
    \/ \E dh \in HandleIds : OpenDevice(dh)
    \/ \E l \in ListIds : DropList(l)
    \/ \E dh \in HandleIds : DropDevice(dh)
    \/ \E d \in Devs : DropDev(d)

RegSpec == RegInit /\ [][RegNext]_vars

\* devices are opened by address only; the library may refuse every call
PciInit == RegInitWith({"open_device_with_pci"})

PciNext ==
    \/ OpenWithPci
    \/ \E d \in Devs : DropDev(d)

PciSpec == PciInit /\ [][PciNext]_vars

----------------------------------------------------------------------------
(* The state machine of the hand-off files *)

\* the descriptors a caller saves: n bytes, the i-th being i - 1 modulo 256
Descriptor(n) == [i \in 1 .. n |-> (i + 255) % 256]
Descriptors ==
    {Descriptor(n) : n \in {2, DOCA_MAX_EXPORT_LENGTH,
                            DOCA_MAX_EXPORT_LENGTH + 1}}

\* the regions a caller saves: addresses and lengths of one and of several
\* decimal digits
ConfigPointers ==
    [inner : {1, 4096}, payload : {0, 1024}]

SaveConfigFiles ==
    /\ Running
    /\ \E export_desc \in Descriptors, src_buffer \in ConfigPointers :
       \E n \in IoEnv(refusable, "save_config", 7) :
       \E res \in {SaveConfig(config, export_desc, src_buffer, n)} :
          /\ config' = res.cfg
          /\ last' = Last("save_config", <<export_desc, src_buffer>>,
                          res.ret, res.calls)
    /\ UNCHANGED <<mmapVars, ctxVars, workqVars, devVars, refusable, invVars,
                   bufVars, job, registry, held>>

LoadConfigFiles ==
    /\ Running
    /\ \E k \in IoEnv(refusable, "load_config", 6) :
       \E res \in {LoadConfig(config, k)} :
          /\ config' = res.cfg
          /\ last' = Last("load_config", "-", res.ret, res.calls)
    /\ UNCHANGED <<mmapVars, ctxVars, workqVars, devVars, refusable, invVars,
                   bufVars, job, registry, held>>

\* the file system may fail every call
ConfigInit == InitWith({"save_config", "load_config"})

ConfigNext ==
    \/ SaveConfigFiles
    \/ LoadConfigFiles

ConfigSpec == ConfigInit /\ [][ConfigNext]_vars

----------------------------------------------------------------------------
(* Properties *)

\* the FFI calls of the last operation that are calls of native function fn
CallsOf(fn) == {i \in 1 .. Len(last.calls) : last.calls[i].f = fn}

\* the FFI calls of the last operation that the native library refused
Refused(fn) == {i \in CallsOf(fn) : last.calls[i].r # DOCA_SUCCESS}

\* C1: once a local map has been exported successfully, every later
\* rm_device(j), for a valid or an invalid index j, returns an error: it
\* returns neither Ok nor panics.
C1_ExportedMapRejectsRmDevice ==
    (last.op = "rm_device" /\ doca_mmap.exported) => IsErr(last.ret)

\* C2: a remote map (new_from_export) is never device-mutable: every
\* rm_device on it returns an error without a panic, and the devices it
\* records and has registered are the single device of its construction.
C2_RemoteMapNeverDeviceMutable ==
    (mmap.st = "live" /\ doca_mmap.from_export) =>
        /\ Len(mmap.ctx) = 1
        /\ doca_mmap.devs = {mmap.ctx[1]}
        /\ last.op = "rm_device" => IsErr(last.ret)

\* C3: add_device on a map that has been exported successfully, or that
\* new_from_export created, returns an error and leaves the recorded device
\* list as it was.
C3_AddDeviceRejectedOnExportedOrRemote ==
    [][(last'.op = "add_device" /\ (doca_mmap.exported \/ doca_mmap.from_export))
          => (IsErr(last'.ret) /\ mmap'.ctx = mmap.ctx)]_vars

C3_Witness ==
    /\ last.op = "add_device" /\ IsErr(last.ret)
    /\ doca_mmap.exported /\ mmap.st = "live" /\ Len(mmap.ctx) = 1

\* C4: the removal-forbidden flag (ok = false) is monotone: once set on a
\* map no add_device, rm_device, populate, export or drop clears it; it is
\* set after every successful export and from construction on a remote map.
C4_RemovalForbiddenIsPermanent ==
    [][/\ (mmap.st = "live" /\ ~mmap.ok) => ~mmap'.ok
       /\ (last'.op = "export" /\ last'.ret = Ok) => ~mmap'.ok
       /\ (last'.op = "new_from_export" /\ last'.ret = Ok) => ~mmap'.ok]_vars

C4_Witness ==
    /\ mmap.st = "live" /\ ~mmap.ok /\ doca_mmap.exported
    /\ last.op = "populate" /\ last.ret = Ok

\* C5: when a map is dropped with removal legal (ok), the native map is
\* released only after doca_mmap_dev_rm has succeeded for every recorded
\* device, in order; with removal illegal (exported or remote) the drop
\* makes no doca_mmap_dev_rm call and only releases the native map.
C5_DropDeregistersBeforeRelease ==
    [][last'.op = "drop" =>
        LET calls == last'.calls
            n     == Len(mmap.ctx)
        IN  IF mmap.ok
            THEN /\ \A i \in 1 .. Len(calls) :
                        calls[i].f = "doca_mmap_destroy" =>
                            /\ i = n + 1
                            /\ \A j \in 1 .. n :
                                  calls[j] = Call("doca_mmap_dev_rm", mmap.ctx[j], DOCA_SUCCESS)
                 /\ last'.ret = Ok =>
                        /\ Len(calls) = n + 1
                        /\ calls[n + 1].f = "doca_mmap_destroy"
                        /\ ~doca_mmap'.alive
                        /\ doca_mmap'.devs \cap Range(mmap.ctx) = {}
            ELSE /\ calls = <<Call("doca_mmap_destroy", "-", DOCA_SUCCESS)>>
                 /\ last'.ret = Ok
                 /\ ~doca_mmap'.alive]_vars

C5_Witness ==
    /\ last.op = "drop" /\ last.ret = Ok /\ mmap.ok
    /\ Len(last.calls) = 3 /\ last.calls[3].f = "doca_mmap_destroy"

\* C6: if DOCAContext::new fails while adding its k-th device (k >= 2),
\* every device it had added before has been removed from the native
\* context again by the time new returns.
C6_FailedNewRemovesAddedDevices ==
    last.op = "DOCAContext::new" =>
        \A i \in Refused("doca_ctx_dev_add") :
            \A j \in 1 .. (i - 1) :
                last.calls[j].f = "doca_ctx_dev_add" =>
                    \E k \in (i + 1) .. Len(last.calls) :
                        /\ last.calls[k].f = "doca_ctx_dev_rm"
                        /\ last.calls[k].a = last.calls[j].a
                        /\ last.calls[k].r = DOCA_SUCCESS

\* C7: DOCAContext::new with an empty device list returns an error (it does
\* not panic) and makes no FFI call.
C7_EmptyDeviceListReturnsError ==
    (last.op = "DOCAContext::new" /\ last.arg[2] = <<>>) =>
        (IsErr(last.ret) /\ last.calls = <<>>)

\* the FFI calls the Drop of a context made in the last operation, when the
\* last operation dropped one: the caller dropped the last Arc of it, or
\* dropped the last queue holding one
CtxTeardown ==
    IF last.op \in {"drop(DOCAContext)", "drop(DOCAWorkQueue)"}
    THEN SelectSeq(last.calls,
                   LAMBDA c : c.f \in {"doca_ctx_stop", "doca_ctx_dev_rm"})
    ELSE <<>>

\* the context that Drop ran on
DroppedContext ==
    IF last.op = "drop(DOCAContext)" THEN last.arg ELSE workq[last.arg].ctx

\* C8: when a constructed context is destroyed, stop is issued before any
\* device removal, and a removal is then attempted for every device of
\* added_devs, each exactly once; only a refused removal, which is fatal,
\* ends the removals early.
C8_StopThenRemoveEveryDevice ==
    CtxTeardown # <<>> =>
        LET calls == CtxTeardown
            devs  == context[DroppedContext].added_devs
        IN  /\ calls[1].f = "doca_ctx_stop"
            /\ Len(calls) <= Len(devs) + 1
            /\ \A i \in 2 .. Len(calls) :
                  calls[i].f = "doca_ctx_dev_rm" /\ calls[i].a = devs[i - 1]
            /\ Refused("doca_ctx_dev_rm") = {} => Len(calls) = Len(devs) + 1

\* C9: a doca_ctx_dev_rm refused during the teardown of a context, or a
\* doca_mmap_dev_rm refused during the drop of a map whose devices may be
\* removed, is never swallowed: the teardown panics and does not complete.
C9_RefusedRemovalPanics ==
    /\ (last.op = "drop" /\ Refused("doca_mmap_dev_rm") # {}) =>
           (last.ret = Panic /\ mmap.st = "panicked" /\ doca_mmap.alive)
    /\ Refused("doca_ctx_dev_rm") # {} => last.ret = Panic
    /\ (last.op = "drop(DOCAContext)" /\ Refused("doca_ctx_dev_rm") # {}) =>
           context[last.arg].st = "panicked"

C9_Witness ==
    /\ last.op = "drop(DOCAContext)" /\ last.ret = Panic
    /\ Refused("doca_ctx_dev_rm") # {}
    /\ mmap.st = "live" /\ mmap.ok

\* C10: if DOCAWorkQueue::new creates the native queue and attaching it to
\* the context fails, the native queue is destroyed before new returns and
\* new returns the failure as an error, not as a panic.
C10_AttachFailureDestroysQueue ==
    (last.op = "DOCAWorkQueue::new" /\ Refused("doca_ctx_workq_add") # {}) =>
        /\ IsErr(last.ret)
        /\ CallsOf("doca_workq_destroy") # {}
        /\ ~doca_workq[last.arg[1]].alive

Before(calls, i, call) == \E j \in 1 .. (i - 1) : calls[j] = call

\* the queues are destroyed before the context is stopped: a stop is
\* preceded, in the same operation, by the destruction of every queue that
\* was live
QueueThenContext(calls) ==
    \A i \in 1 .. Len(calls) :
        calls[i].f = "doca_ctx_stop" =>
            \A q \in WqIds :
                workq[q].st = "live" =>
                    /\ Before(calls, i, Call("doca_ctx_workq_rm", q, DOCA_SUCCESS))
                    /\ Before(calls, i, Call("doca_workq_destroy", q, DOCA_SUCCESS))

\* the context is stopped and its devices are removed before one of its
\* devices is closed
ContextThenDevices(calls) ==
    \A i \in 1 .. Len(calls) :
        calls[i].f = "doca_dev_close" =>
            \A c \in CtxIds :
                (context[c].st = "live" /\ calls[i].a \in Range(context[c].added_devs)) =>
                    /\ Before(calls, i, Call("doca_ctx_stop", "-", DOCA_SUCCESS))
                    /\ Before(calls, i, Call("doca_ctx_dev_rm", calls[i].a, DOCA_SUCCESS))

\* the context is stopped and its devices are removed before the engine is
\* destroyed
ContextThenEngine(calls) ==
    \A i \in 1 .. Len(calls) :
        calls[i].f = "doca_dma_destroy" =>
            \A c \in CtxIds :
                context[c].st = "live" =>
                    /\ Before(calls, i, Call("doca_ctx_stop", "-", DOCA_SUCCESS))
                    /\ \A d \in Range(context[c].added_devs) :
                          Before(calls, i, Call("doca_ctx_dev_rm", d, DOCA_SUCCESS))

\* the devices of the context are closed before the engine is destroyed
DevicesThenEngine(calls) ==
    \A i \in 1 .. Len(calls) :
        calls[i].f = "doca_dma_destroy" =>
            \A c \in CtxIds :
                context[c].st = "live" =>
                    \A d \in Range(context[c].added_devs) :
                        \/ ~doca_dev[d]
                        \/ Before(calls, i, Call("doca_dev_close", d, DOCA_SUCCESS))

C13_PollNeverReturnsAgain ==
    last.op = "poll_completion" => last.ret # DOCA_ERROR_AGAIN

\* no native object is released while a native object that depends on it
\* is live
DependenciesLive ==
    /\ \A b \in BufIds :
          doca_buf[b].alive => (doca_buf_inventory.alive /\ doca_mmap.alive)
    /\ \A q \in WqIds :
          (doca_workq[q].alive /\ q \in doca_ctx.workqs) => doca_ctx.started
    /\ doca_ctx.started => doca_dma
    /\ \A d \in doca_ctx.devs : doca_dev[d]
    /\ \A d \in doca_mmap.devs : doca_dev[d]
    /\ job.st = "live" =>
          /\ doca_buf[job.src].alive /\ doca_buf[job.dst].alive
          /\ doca_ctx.started

\* the caller holds nothing any more
AllDropped ==
    /\ held = {}
    /\ mmap.st # "live" /\ inv.st # "live" /\ job.st # "live"
    /\ \A b \in BufIds : buf[b].st \notin {"registered", "live"}
    /\ \A c \in CtxIds : context[c].st # "live"
    /\ \A q \in WqIds : workq[q].st # "live"

\* every native object is released
AllReleased ==
    /\ \A d \in Devs : ~doca_dev[d]
    /\ ~doca_dma /\ ~doca_mmap.alive /\ ~doca_buf_inventory.alive
    /\ ~doca_ctx.started /\ doca_ctx.devs = {} /\ doca_ctx.workqs = {}
    /\ \A b \in BufIds : ~doca_buf[b].alive
    /\ \A q \in WqIds : ~doca_workq[q].alive

\* C14: with a library that refuses nothing, building the chain (engine,
\* devices, map, inventory, buffers, context, queue, job) and dropping the
\* caller's handles in any order never panics, never releases a native
\* object while one that depends on it is live, and leaves no device open
\* and no native object alive once everything is dropped.
C14_ChainTeardownIsSafe ==
    /\ last.ret # Panic
    /\ DependenciesLive
    /\ AllDropped => AllReleased

\* the whole chain was built, the job included, and everything is dropped
C14_Witness ==
    /\ AllDropped /\ AllReleased
    /\ job.st = "dropped" /\ mmap.st = "dropped" /\ inv.st = "dropped"
    /\ workq["wq0"].st = "dropped" /\ context["ctx0"].st = "dropped"
    /\ buf["b0"].st = "dropped" /\ buf["b1"].st = "dropped"

\* C15: a submit to a queue of depth d, issued while fewer than d jobs are
\* outstanding (submitted and not yet polled to completion), returns Ok and
\* the job is outstanding after it; it is never rejected for overflow.
C15_SubmitWithinDepthAccepted ==
    [][last'.op = "submit" =>
        LET q == last'.arg
        IN  doca_workq[q].jobs < workq[q].depth =>
                /\ last'.ret = Ok
                /\ doca_workq'[q].jobs = doca_workq[q].jobs + 1
                /\ doca_workq'[q].jobs <= workq[q].depth]_vars

\* the submit that fills a queue of depth MaxDepth
C15_Witness ==
    /\ last.op = "submit" /\ last.ret = Ok
    /\ workq[last.arg].depth = MaxDepth
    /\ doca_workq[last.arg].jobs = MaxDepth

\* C16: a job is one-shot: once it was submitted and a successful
\* completion event was polled for it, a submit of that job is rejected.
C16_CompletedJobNotResubmitted ==
    [][(/\ last.op = "poll_completion" /\ last.ret = Ok
        /\ job.st = "live"
        /\ last'.op = "submit")
       => IsErr(last'.ret)]_vars

\* the calls of the last operation that release buffer b, and those of them
\* the library accepted
ReleasesOf(calls, b) ==
    {i \in 1 .. Len(calls) : calls[i].f = "doca_buf_refcount_rm" /\ calls[i].a = b}
ReleasedBy(calls, b) ==
    {i \in ReleasesOf(calls, b) : calls[i].r = DOCA_SUCCESS}

C19_SetDataWithinHead ==
    [][/\ last'.op = "set_data" =>
             LET b    == last'.arg[1]
                 off  == last'.arg[2]
                 sz   == last'.arg[3]
                 head == buf[b].head
             IN  IF off + sz > head.payload
                 THEN IsErr(last'.ret) /\ doca_buf'[b] = doca_buf[b]
                 ELSE /\ last'.ret = Ok
                      /\ doca_buf'[b].data = head.inner + off
                      /\ doca_buf'[b].len = sz
       /\ (last.op = "set_data" /\ last.ret = Ok /\ last'.op = "get_data") =>
             /\ last'.ret = Ok
             /\ last'.calls[1].a =
                    <<last'.arg, buf[last'.arg].head.inner + last.arg[2]>>]_vars

\* get_data after a set_data that moved the data off the head of a region
\* of MaxPayload bytes
C19_Witness ==
    /\ last.op = "get_data" /\ last.ret = Ok
    /\ buf[last.arg].head.payload = MaxPayload
    /\ last.calls[1].a[2] > buf[last.arg].head.inner
    /\ doca_buf[last.arg].len > 0

\* C20: no operation of the public API that is not a destructor panics:
\* on every input and every answer of the library, the constructors,
\* rm_device, export and DOCADMAJob::set_data return Ok or an error.
C20_NoPanicOutsideDestructors ==
    last.op \in {"new", "new_from_export", "add_device", "rm_device", "export",
                 "populate", "BufferInventory::new", "DOCARegisteredMemory::new",
                 "to_buffer", "DOCAContext::new", "DOCAWorkQueue::new",
                 "create_dma_job", "DOCADMAJob::set_data"}
        => last.ret # Panic
----------------------------------------------------------------------------
----------------------------------------------------------------------------
\* a string with its hexadecimal letters in lower case
LowerPci(name) ==
    [i \in 1 .. Len(name) |->
        CASE name[i] = "A" -> "a" [] name[i] = "B" -> "b" [] name[i] = "C" -> "c"
          [] name[i] = "D" -> "d" [] name[i] = "E" -> "e" [] name[i] = "F" -> "f"
          [] OTHER -> name[i]]

\* the enumerated devices, counted from 0, whose formatted address equals
\* addr when the case of the letters is ignored
MatchesIgnoringCase(addr) ==
    {i \in 0 .. Len(registry.pci) - 1 :
        LowerPci(FormatPci(registry.pci[i + 1])) = LowerPci(addr)}

\* the library refused no call of the last operation
NothingRefused ==
    \A k \in 1 .. Len(last.calls) : last.calls[k].r = DOCA_SUCCESS

(* C22: when the library refuses nothing, open_device_with_pci(addr)      *)
(* succeeds if and only if some enumerated device's formatted address     *)
(* equals addr with the case of the letters ignored, and it then opens    *)
(* the first such device in enumeration order.                            *)
C22_OpensIffAddressMatchesIgnoringCase ==
    (last.op = "open_device_with_pci" /\ NothingRefused) =>
        /\ last.ret = Ok <=> MatchesIgnoringCase(last.arg) # {}
        /\ last.ret = Ok =>
              /\ last.calls[Len(last.calls)].f = "doca_dev_open"
              /\ \A i \in MatchesIgnoringCase(last.arg) :
                    last.calls[Len(last.calls)].a <= i

(* C23: when the library refuses nothing and no enumerated device's       *)
(* formatted address matches the requested one, open_device_with_pci      *)
(* fails with DOCA_ERROR_NOT_FOUND and opens no device.                   *)
C23_NoMatchIsNotFound ==
    (/\ last.op = "open_device_with_pci" /\ NothingRefused
     /\ MatchesIgnoringCase(last.arg) = {}) =>
        /\ last.ret = DOCA_ERROR_NOT_FOUND
        /\ \A k \in 1 .. Len(last.calls) : last.calls[k].f # "doca_dev_open"

----------------------------------------------------------------------------
(* C26: for a device list of length n, get(i) returns a device for every  *)
(* 0 <= i < n, the device at index i of that list, and None for every     *)
(* i >= n.                                                                *)
C26_GetWithinLength ==
    last.op = "get" =>
        LET l == last.arg[1]
            i == last.arg[2]
        IN  /\ i < DeviceListLen(registry) =>
                 /\ last.ret = "Some"
                 /\ \E dh \in HandleIds :
                       /\ registry.device[dh].st = "live" /\ registry.device[dh].held
                       /\ registry.device[dh].inner = i
                       /\ registry.device[dh].parent_devlist = l
            /\ i >= DeviceListLen(registry) => last.ret = "None"

\* get(n) returned None on a list of n >= 1 devices after an earlier get
\* returned the last device of the list
C26_Witness ==
    /\ last.op = "get" /\ last.ret = "None"
    /\ DeviceListLen(registry) >= 1 /\ last.arg[2] = DeviceListLen(registry)
    /\ \E dh \in HandleIds :
          /\ registry.device[dh].st = "live"
          /\ registry.device[dh].inner = DeviceListLen(registry) - 1

----------------------------------------------------------------------------
\* the Device objects of list l still in use: held by the caller, or the
\* parent of an open DevContext
DevicesInUse(l) ==
    {dh \in HandleIds :
        /\ registry.device[dh].parent_devlist = l
        /\ \/ registry.device[dh].held
           \/ \E d \in Devs : registry.parent[d] = dh /\ doca_dev[d]}

(* C25: the native device list is destroyed exactly once and only after   *)
(* every Device obtained from it and every DevContext opened from those   *)
(* devices has been dropped, in whatever order the caller drops the list  *)
(* and the devices: a list is destroyed at most once, a destroyed list    *)
(* has no holder left, and a list without a holder is destroyed.          *)
C25_ListDestroyedOnceAfterItsDevices ==
    \A l \in ListIds :
        /\ registry.list[l].destroys =
              (IF registry.list[l].st = "destroyed" THEN 1 ELSE 0)
        /\ registry.list[l].st = "destroyed" =>
              ~registry.list[l].held /\ DevicesInUse(l) = {}
        /\ registry.list[l].st = "alive" =>
              registry.list[l].held \/ DevicesInUse(l) # {}

\* the caller dropped the list and the Device first; the list is destroyed
\* when the DevContext opened from that Device is dropped last
C25_Witness ==
    /\ last.op = "drop(Arc<DevContext>)"
    /\ \E dh \in HandleIds :
          /\ registry.parent[last.arg] = dh
          /\ registry.device[dh].st = "dropped"
          /\ registry.list[registry.device[dh].parent_devlist].st = "destroyed"
    /\ \A l \in ListIds : registry.list[l].st # "alive"

----------------------------------------------------------------------------
\* the doca_dev_close calls for device d among calls
ClosesOf(calls, d) ==
    Cardinality({k \in 1 .. Len(calls) :
                    calls[k].f = "doca_dev_close" /\ calls[k].a = d})

\* device d has a shared owner after the step: the caller's handle, a
\* registration in the live map or a registration in a live context
OwnedAfter(d) ==
    \/ d \in held'
    \/ mmap'.st = "live" /\ \E i \in 1 .. Len(mmap'.ctx) : mmap'.ctx[i] = d
    \/ \E c \in CtxIds :
          /\ context'[c].st = "live"
          /\ \E i \in 1 .. Len(context'[c].added_devs) : context'[c].added_devs[i] = d

----------------------------------------------------------------------------
(* C27: save_config followed by load_config on the same two files is a    *)
(* round trip: when both succeed as far as the file system goes, the      *)
(* loaded descriptor has the length and the bytes of the saved one and    *)
(* the loaded remote region has the address and the length of the saved   *)
(* buffer, for every descriptor and every region.                         *)
C27_SaveLoadRoundTrip ==
    [][(/\ last.op = "save_config" /\ last.ret = Ok
        /\ last'.op = "load_config"
        /\ \A k \in 1 .. Len(last'.calls) : last'.calls[k].r = DOCA_SUCCESS) =>
           /\ last'.ret = Ok
           /\ config'.loaded.payload = Len(last.arg[1])
           /\ config'.loaded.export_desc = last.arg[1]
           /\ config'.loaded.remote_addr = last.arg[2]]_vars

\* the calls of the last operation that tear a context down, one
\* doca_ctx_stop followed by one doca_ctx_dev_rm for every device of devs
StopsAndRemoves(calls, devs) ==
    LET t == SelectSeq(calls,
                       LAMBDA c : c.f \in {"doca_ctx_stop", "doca_ctx_dev_rm"})
    IN  /\ Len(t) = Len(devs) + 1
        /\ t[1] = Call("doca_ctx_stop", "-", DOCA_SUCCESS)
        /\ \A i \in 1 .. Len(devs) :
              t[i + 1] = Call("doca_ctx_dev_rm", devs[i], DOCA_SUCCESS)

\* the last operation made no call that tears a context down
NoStopNoRemove(calls) ==
    \A i \in 1 .. Len(calls) :
        calls[i].f \notin {"doca_ctx_stop", "doca_ctx_dev_rm"}

TeardownOnceUnlessRefused(c, calls, devs, ctxs, bc) ==
    LET t == SelectSeq(calls,
                       LAMBDA x : x.f \in {"doca_ctx_stop", "doca_ctx_dev_rm"})
    IN  /\ Len(t) \in 1 .. (Len(devs) + 1)
        /\ t[1].f = "doca_ctx_stop"
        /\ \A i \in 2 .. Len(t) : t[i].f = "doca_ctx_dev_rm" /\ t[i].a = devs[i - 1]
        /\ \A i \in 1 .. (Len(t) - 1) : t[i].r = DOCA_SUCCESS
        /\ bc.workqs = {}
        /\ IF t[Len(t)].r = DOCA_SUCCESS
           THEN /\ Len(t) = Len(devs) + 1
                /\ ~bc.started /\ ctxs[c].st = "dropped"
           ELSE /\ last'.ret = Panic /\ ctxs[c].st = "panicked"

C29_DepthFixedAtConstruction ==
    [][\A q \in WqIds :
        /\ (last'.op = "DOCAWorkQueue::new" /\ last'.ret = Ok /\ last'.arg[1] = q) =>
               WorkqDepth(workq'[q], doca_workq'[q]) = last'.arg[3]
        /\ (workq[q].st = "live" /\ workq'[q].st = "live") =>
               WorkqDepth(workq'[q], doca_workq'[q])
                   = WorkqDepth(workq[q], doca_workq[q])
        /\ (last'.op = "depth" /\ last'.arg[1] = q) =>
               /\ last'.arg[2] = WorkqDepth(workq[q], doca_workq[q])
               /\ last'.arg[2] = workq'[q].depth]_vars

\* depth() is asked of a queue built with depth MaxDepth while a job
\* submitted to it is outstanding
C29_Witness ==
    /\ last.op = "depth" /\ last.arg = <<"wq0", MaxDepth>>
    /\ doca_workq["wq0"].jobs = MaxDepth - 1
    /\ doca_workq["wq0"].depth = MaxDepth

\* C30: a buffer freshly produced by to_buffer has the registered range
\* as its head, in the wrapper and in the native buffer, and its active
\* data pointer at the head address with length 0; a get_data that follows
\* at once reads the head address.  The registered range is the one given
\* to DOCARegisteredMemory::new.
C30_FreshBufferStartsAtHead ==
    [][/\ (last'.op = "DOCARegisteredMemory::new" /\ last'.ret = Ok) =>
            buf'[last'.arg[1]].head = last'.arg[2]
       /\ (last'.op = "to_buffer" /\ last'.ret = Ok) =>
            LET b == last'.arg
                r == buf[b].head
            IN  /\ buf'[b].st = "live" /\ buf'[b].head = r
                /\ doca_buf'[b].alive
                /\ doca_buf'[b].head = r.inner /\ doca_buf'[b].size = r.payload
                /\ doca_buf'[b].data = r.inner /\ doca_buf'[b].len = 0
       /\ (/\ last.op = "to_buffer" /\ last.ret = Ok
           /\ last'.op = "get_data" /\ last'.arg = last.arg /\ last'.ret = Ok) =>
            last'.calls[1].a = <<last.arg, buf[last.arg].head.inner>>]_vars

\* get_data reads a buffer that to_buffer has just produced from the
\* highest region of MaxPayload bytes
C30_Witness ==
    /\ last.op = "get_data" /\ last.ret = Ok
    /\ buf[last.arg].head = [inner |-> 2 ^ PtrBits - 1 - MaxPayload,
                             payload |-> MaxPayload]
    /\ last.calls[1].a[2] = buf[last.arg].head.inner
    /\ doca_buf[last.arg].len = 0 /\ doca_buf[last.arg].size = MaxPayload

\* the calls that add every device of devs, in order, each accepted
AddsOf(devs) ==
    [k \in 1 .. Len(devs) |-> Call("doca_ctx_dev_add", devs[k], DOCA_SUCCESS)]

\* C31: DOCAContext::new calls doca_ctx_start only after every listed
\* device has been added successfully, in the order given, and it returns
\* Ok only for a context that is started, with every listed device added
\* to the native context and recorded in added_devs in that order.
C31_StartAfterEveryAdd ==
    last.op = "DOCAContext::new" =>
        LET devs  == last.arg[2]
            calls == last.calls
        IN  /\ \A i \in CallsOf("doca_ctx_start") :
                  /\ i = Len(devs) + 2
                  /\ SubSeq(calls, 2, i - 1) = AddsOf(devs)
            /\ last.ret = Ok =>
                  /\ calls = <<Call("doca_dma_as_ctx", "-", DOCA_SUCCESS)>>
                             \o AddsOf(devs)
                             \o <<Call("doca_ctx_start", "-", DOCA_SUCCESS)>>
                  /\ doca_ctx.started
                  /\ Range(devs) \subseteq doca_ctx.devs
                  /\ context[last.arg[1]].st = "live"
                  /\ context[last.arg[1]].added_devs = devs

\* new returned a started context on two different devices
C31_Witness ==
    /\ last.op = "DOCAContext::new" /\ last.ret = Ok
    /\ last.arg[2] = <<"dev1", "dev0">>
    /\ doca_ctx.started /\ doca_ctx.devs = {"dev0", "dev1"}

\* C32: each call of DOCAWorkQueue::poll_completion makes exactly one
\* doca_workq_progress_retrieve attempt and has two kinds of outcome: Ok
\* if and only if that attempt reported DOCA_SUCCESS, otherwise Err with
\* the code of the attempt, DOCA_ERROR_AGAIN included; it does not retry
\* and does not panic.
C32_PollIsOneAttempt ==
    last.op = "poll_completion" =>
        /\ Len(last.calls) = 1
        /\ last.calls[1].f = "doca_workq_progress_retrieve"
        /\ last.calls[1].a = last.arg
        /\ last.ret = Ok <=> last.calls[1].r = DOCA_SUCCESS
        /\ last.ret # Ok => (IsErr(last.ret) /\ last.ret = last.calls[1].r)

\* a poll of a queue with a job outstanding whose one attempt found no
\* completion yet: the caller gets Err(DOCA_ERROR_AGAIN)
C32_Witness ==
    /\ last.op = "poll_completion" /\ last.ret = DOCA_ERROR_AGAIN
    /\ Len(last.calls) = 1
    /\ doca_workq[last.arg].jobs > 0

\* C33: DOCAMmap::new sets the chunk limit to DOCA_MMAP_CHUNK_SIZE before
\* it starts the map, and returns Ok only for a map that is started, whose
\* devices may be removed and which has no device registered; when
\* setting the limit or starting is refused, new returns that error and
\* the native map is destroyed by exactly one doca_mmap_destroy call.
C33_NewLimitsThenStarts ==
    last.op = "new" =>
        /\ \A i \in CallsOf("doca_mmap_start") :
              /\ i = 3
              /\ last.calls[2] = Call("doca_mmap_set_max_num_chunks",
                                      DOCA_MMAP_CHUNK_SIZE, DOCA_SUCCESS)
        /\ last.ret = Ok =>
              /\ mmap.st = "live" /\ mmap.ok /\ mmap.ctx = <<>>
              /\ doca_mmap.alive /\ doca_mmap.started
              /\ doca_mmap.max_chunks = DOCA_MMAP_CHUNK_SIZE
              /\ doca_mmap.devs = {}
              /\ CallsOf("doca_mmap_destroy") = {}
        /\ (Refused("doca_mmap_set_max_num_chunks") # {}
              \/ Refused("doca_mmap_start") # {}) =>
              /\ IsErr(last.ret)
              /\ last.ret = last.calls[Len(last.calls) - 1].r
              /\ CallsOf("doca_mmap_destroy") = {Len(last.calls)}
              /\ ~doca_mmap.alive /\ mmap.st # "live"

\* new was refused at the start of the map and released the native map
C33_Witness ==
    /\ last.op = "new" /\ IsErr(last.ret)
    /\ Refused("doca_mmap_start") = {3}
    /\ CallsOf("doca_mmap_destroy") = {4}
    /\ ~doca_mmap.alive

\* C34: the busy-looping WorkQueue::poll_completion of context.rs: when
\* the engine eventually answers a retrieve with something other than
\* DOCA_ERROR_AGAIN, a call that is inside its loop eventually returns,
\* and the code a call returns is never DOCA_ERROR_AGAIN.
C34_SpinningPollReturns ==
    /\ [](last.op = "WorkQueue::poll_completion" => last.ret # DOCA_ERROR_AGAIN)
    /\ (last.ret = Pending)
          ~> (/\ last.op = "WorkQueue::poll_completion"
              /\ last.ret \notin {Pending, DOCA_ERROR_AGAIN})

\* a call returned a completion after more attempts than are remembered,
\* the ones before the last answered DOCA_ERROR_AGAIN
C34_Witness ==
    /\ last.op = "WorkQueue::poll_completion" /\ last.ret = DOCA_SUCCESS
    /\ Len(last.calls) = MaxSpins
    /\ \A i \in 1 .. (MaxSpins - 1) : last.calls[i].r = DOCA_ERROR_AGAIN

\* before the i-th call of calls, neither was the native map destroyed
\* nor device d deregistered from it
StillRegistered(calls, i, d) ==
    \A j \in 1 .. (i - 1) :
        /\ calls[j].f # "doca_mmap_destroy"
        /\ calls[j] # Call("doca_mmap_dev_rm", d, DOCA_SUCCESS)

\* C35: a device is never closed while it is registered with a map whose
\* native object has not been released: no doca_dev_close of a device is
\* made while the native map is alive and has the device registered, also
\* when an exported or remote map holds the last Arc of the device at the
\* time it is dropped.
C35_NoCloseWhileRegistered ==
    [][\A i \in 1 .. Len(last'.calls) :
          last'.calls[i].f = "doca_dev_close" =>
              ~(/\ doca_mmap.alive
                /\ last'.calls[i].a \in doca_mmap.devs
                /\ StillRegistered(last'.calls, i, last'.calls[i].a))]_vars

\* C36: on a local map that was never exported, after every successful
\* operation the devices the wrapper records are exactly the devices
\* registered with the native map; so the drop of the map deregisters only
\* devices that are registered, each once, and does not deregister again
\* a device that a successful rm_device has deregistered.
C36_RecordedAreRegistered ==
    [][/\ (/\ mmap'.st = "live" /\ mmap'.ok /\ ~doca_mmap'.from_export
           /\ last'.ret = Ok) =>
              Range(mmap'.ctx) = doca_mmap'.devs
       /\ (last'.op = "drop" /\ mmap.ok) =>
              \A i \in 1 .. Len(last'.calls) :
                  last'.calls[i].f = "doca_mmap_dev_rm" =>
                      /\ last'.calls[i].a \in doca_mmap.devs
                      /\ \A j \in 1 .. (i - 1) :
                            last'.calls[j] # Call("doca_mmap_dev_rm",
                                                  last'.calls[i].a,
                                                  DOCA_SUCCESS)]_vars

\* C37: the buffers of a job submitted to a queue are not released while
\* the job is outstanding: in the step that follows an accepted submit of
\* the job, before any completion was polled for it, the native buffers
\* of its source and its destination stay alive, whatever the caller does.
C37_SubmittedBuffersKept ==
    [][(/\ last.op = "submit" /\ last.ret = Ok
        /\ job.st = "live" /\ doca_workq[last.arg].jobs > 0) =>
           \A b \in {job.src, job.dst} :
               doca_buf[b].alive => doca_buf'[b].alive]_vars

\* C38: a failed export leaves the map unchanged: with an index that has
\* no recorded device export returns DOCA_ERROR_INVALID_VALUE and calls
\* nothing, and after every export that failed, for a bad index or because
\* the library refused, the flag ok and the recorded devices are what they
\* were before the call.
C38_FailedExportChangesNothing ==
    [][last'.op = "export" =>
        /\ last'.arg >= Len(mmap.ctx) =>
              /\ last'.ret = DOCA_ERROR_INVALID_VALUE
              /\ last'.calls = <<>>
        /\ last'.ret # Ok =>
              /\ IsErr(last'.ret)
              /\ mmap'.ok = mmap.ok /\ mmap'.ctx = mmap.ctx
              /\ mmap'.st = mmap.st]_vars

\* the library refused the export of a map whose devices may be removed
C38_Witness ==
    /\ last.op = "export" /\ IsErr(last.ret)
    /\ Refused("doca_mmap_export") = {1}
    /\ mmap.ok /\ mmap.ctx # <<>>

\* two contexts built on the one engine: both wrap the doca_ctx that
\* doca_dma_as_ctx returns for it
EngineInit == InitWith({"DOCAContext::new", "drop(DOCAContext)"})

EngineNext ==
    \/ NewContext("ctx0")
    \/ DropContext("ctx0")
    \/ NewContext("ctx1")
    \/ DropContext("ctx1")

EngineSpec == EngineInit /\ [][EngineNext]_vars

\* context c is alive, and the doca_ctx of the engine is started and has
\* every device of c.added_devs
Undisturbed(cs, b, c) ==
    /\ cs[c].st = "live"
    /\ b.started
    /\ Range(cs[c].added_devs) \subseteq b.devs

\* the operation l created, or failed to create, or destroyed context c
CreatesOrDrops(l, c) ==
    \/ l.op = "DOCAContext::new" /\ l.arg[1] = c
    \/ l.op = "drop(DOCAContext)" /\ l.arg = c

\* C39: while a DOCAContext built on an engine is alive, creating a second
\* DOCAContext on the same engine, with success or not, and dropping it do
\* not disturb the first: the doca_ctx of the engine stays started with
\* every device of the first context added (so that no doca_ctx_stop is
\* accepted between the start of the first context and its own Drop).
C39_SecondContextLeavesFirst ==
    [][(Undisturbed(context, doca_ctx, "ctx0") /\ CreatesOrDrops(last', "ctx1"))
          => Undisturbed(context', doca_ctx', "ctx0")]_vars

====
